---------------------------- MODULE Spec2Model ----------------------------
(***************************************************************************)
(* A model of the billing engine of librelandlord (Django application      *)
(* "bill"): the meter-reading store and its entry points, the reading      *)
(* resolver MeterReadingManager.get_reading_at_date, the Meter table and   *)
(* its constraints, MeterPlace.calculate_billing and                       *)
(* ConsumptionCalc.calculate.                                              *)
(*                                                                         *)
(* Dates are day numbers 0..MaxDay.  A nullable column is a sequence of    *)
(* length 0 (NULL) or 1.  Meter readings are DecimalField values, modelled *)
(* as whole numbers of the smallest stored unit; every computed quantity   *)
(* (float or Decimal in the source) is an exact rational <<num, den>> in   *)
(* lowest terms with den > 0, so the binary/decimal rounding of the source *)
(* is not part of the model.                                               *)
(***************************************************************************)
EXTENDS Integers, Sequences, FiniteSets, TLC

\* ------------------------------------------------------------------ bounds
MaxDay == 4
MaxValue == 2
MaxMeters == 2
MaxArgs == 3
MaxCalcDay == 2
MaxDepth == 3
MaxRentDay == 3
MaxRenters == 2
MaxArea == 2

Days == 0..MaxDay
Values == 0..MaxValue

None == <<>>
Some(x) == <<x>>
Get(o) == o[1]

Min2(a, b) == IF a <= b THEN a ELSE b
Max2(a, b) == IF a >= b THEN a ELSE b

\* ------------------------------------------------------- exact arithmetic
Abs(n) == IF n < 0 THEN 0 - n ELSE n

RECURSIVE GCD(_, _)
GCD(a, b) == IF b = 0 THEN a ELSE GCD(b, a % b)

\* num/den in lowest terms, den > 0 (den # 0 required)
Rat(num, den) ==
    LET g == GCD(Abs(num), Abs(den))
        s == IF den < 0 THEN 0 - 1 ELSE 1
    IN  <<(s * num) \div g, (s * den) \div g>>

RatInt(n) == <<n, 1>>
RatAdd(x, y) == Rat(x[1] * y[2] + y[1] * x[2], x[2] * y[2])
RatSub(x, y) == Rat(x[1] * y[2] - y[1] * x[2], x[2] * y[2])
RatMul(x, y) == Rat(x[1] * y[1], x[2] * y[2])
\* y # 0 required
RatDiv(x, y) == Rat(x[1] * y[2], x[2] * y[1])
RatLe(x, y) == x[1] * y[2] <= y[1] * x[2]
RatIsZero(x) == x[1] = 0

\* ------------------------------------------------------------------ state
VARIABLES
    meters,     \* table Meter: rows [id, place, build_in_date, out_of_order_date]
    readings,   \* table MeterReading: rows [meter, date, meter_reading]
    result,     \* what the last query (resolver / billing) returned or raised
    formulas,   \* table ConsumptionCalc with its ConsumptionCalcArgument rows
    calc,       \* the ConsumptionCalc.calculate evaluation: call, stack, outcome
    apartments, \* table Apartment: rows [id, size_in_m2]
    renters,    \* table Renter: rows [id, apartment, move_in_date,
                \*   move_out_date, contract_start_date, contract_end_date]
    cost_centers,  \* table CostCenter: rows [id, distribution_type,
                   \*   area_percentage, consumption_percentage]
    contributions, \* table CostCenterContribution: rows [id, cost_center,
                   \*   apartment, special_designation, consumption_calc]
    bill_objects,  \* table Bill: rows [id, cost_center, account_period,
                   \*   bill_date, value, from_date, to_date]
    account_periods  \* table AccountPeriod: rows [id, text, start_date,
                     \*   end_date]

vars == <<meters, readings, result, formulas, calc, apartments, renters,
          cost_centers, contributions, bill_objects, account_periods>>

NoResult == [op |-> "none"]
NoCalc == [status |-> "idle"]

\* ----------------------------------------------------------- Meter table
MeterById(ms, id) == CHOOSE m \in ms : m.id = id

\* CheckConstraint check_build_in_before_out_of_order
CheckBuildInBeforeOutOfOrder(m) ==
    IF m.out_of_order_date = None THEN TRUE
    ELSE Get(m.out_of_order_date) > m.build_in_date

\* a variant whose constraint has fields ["place", "build_in_date"]
UniqueActiveMeterPerPlaceAndDate(ms) ==
    \A a, b \in ms :
        (/\ a.place = b.place
         /\ a.build_in_date = b.build_in_date
         /\ a.out_of_order_date = None
         /\ b.out_of_order_date = None) => a.id = b.id

\* UniqueConstraint unique_active_meter_per_place, over a whole table
UniqueActiveMeterPerPlace(ms) ==
    \A a, b \in ms :
        (/\ a.place = b.place
         /\ a.out_of_order_date = None
         /\ b.out_of_order_date = None) => a.id = b.id

MeterConstraints(ms) ==
    /\ \A m \in ms : CheckBuildInBeforeOutOfOrder(m)
    /\ UniqueActiveMeterPerPlace(ms)

\* ----------------------------------------------------- MeterReading table
ReadingsOf(rs, id) == {r \in rs : r.meter = id}

\* filter(meter=, date__lt=).order_by('-date').first()
ReadingBefore(rs, id, d) ==
    LET c == {r \in ReadingsOf(rs, id) : r.date < d}
    IN  IF c = {} THEN None
        ELSE Some(CHOOSE r \in c : \A q \in c : q.date <= r.date)

\* filter(meter=, date__gt=).order_by('date').first()
ReadingAfter(rs, id, d) ==
    LET c == {r \in ReadingsOf(rs, id) : r.date > d}
    IN  IF c = {} THEN None
        ELSE Some(CHOOSE r \in c : \A q \in c : q.date >= r.date)

\* filter(meter=, date=).first()
ReadingOn(rs, id, d) ==
    LET c == {r \in ReadingsOf(rs, id) : r.date = d}
    IN  IF c = {} THEN None ELSE Some(CHOOSE r \in c : TRUE)

\* Meter active window test shared by every entry point:
\* date < build_in_date, or out_of_order_date set and date > out_of_order_date
InWindow(m, d) ==
    IF d < m.build_in_date THEN FALSE
    ELSE IF m.out_of_order_date # None THEN ~(d > Get(m.out_of_order_date))
    ELSE TRUE


\* MeterReading.clean: TRUE iff no ValidationError is raised for the
\* instance self = [meter, date, meter_reading] against the stored table rs
Clean(rs, ms, self) ==
    LET previous_reading == ReadingBefore(rs, self.meter, self.date)
    IN  IF previous_reading # None
           /\ self.meter_reading < Get(previous_reading).meter_reading
        THEN FALSE
        ELSE InWindow(MeterById(ms, self.meter), self.date)

\* UniqueConstraint unique_meter_reading_per_day, validated for the row `self`
\* that replaces the stored row `old` (None when self is a new row)
UniqueMeterReadingPerDay(rs, old, self) ==
    \A r \in rs :
        (r.meter = self.meter /\ r.date = self.date) => (old # None /\ r = Get(old))

\* ------------------------------------------------ reading resolver (4.1)
MeterNotActiveError == [kind |-> "MeterNotActiveError"]
InsufficientDataError == [kind |-> "InsufficientDataError"]

\* the return value for a reading r stored on the target date
ExactResult(meter, target_date, r) ==
    [kind |-> "ok", meter |-> meter.id, date |-> target_date,
     calculated_reading |-> RatInt(r.meter_reading),
     is_exact |-> TRUE,
     reading_before |-> Some(r), reading_after |-> Some(r),
     days_total |-> None, days_to_target |-> None, daily_consumption |-> None]

\* a variant that divides in whole numbers (reading_diff // days_total)
InterpolateFloorDiv(before, after, target_date) ==
    LET days_total == after.date - before.date
        days_to_target == target_date - before.date
        reading_diff == after.meter_reading - before.meter_reading
        daily_consumption == RatInt(reading_diff \div days_total)
    IN  [calculated_reading |->
             RatAdd(RatInt(before.meter_reading),
                    RatMul(daily_consumption, RatInt(days_to_target))),
         days_total |-> days_total,
         days_to_target |-> days_to_target,
         daily_consumption |-> daily_consumption]

\* the interpolation between the readings before and after:
\* float(before) + (reading_diff / days_total) * days_to_target;
\* with days_total <= 0 the value of before and a rate of 0
Interpolate(before, after, target_date) ==
    LET days_total == after.date - before.date
        days_to_target == target_date - before.date
        reading_diff == after.meter_reading - before.meter_reading
    IN  IF days_total > 0
        THEN LET daily_consumption ==
                     RatDiv(RatInt(reading_diff), RatInt(days_total))
             IN  [calculated_reading |->
                      RatAdd(RatInt(before.meter_reading),
                             RatMul(daily_consumption, RatInt(days_to_target))),
                  days_total |-> days_total,
                  days_to_target |-> days_to_target,
                  daily_consumption |-> daily_consumption]
        ELSE [calculated_reading |-> RatInt(before.meter_reading),
              days_total |-> days_total,
              days_to_target |-> days_to_target,
              daily_consumption |-> RatInt(0)]

\* the return value interpolated between the readings before and after
InterpolatedResult(meter, target_date, before, after) ==
    LET ip == Interpolate(before, after, target_date)
    IN  [kind |-> "ok", meter |-> meter.id, date |-> target_date,
         calculated_reading |-> ip.calculated_reading,
         is_exact |-> FALSE,
         reading_before |-> Some(before), reading_after |-> Some(after),
         days_total |-> Some(ip.days_total),
         days_to_target |-> Some(ip.days_to_target),
         daily_consumption |-> Some(ip.daily_consumption)]

\* a variant that falls back to the one reading it has
ResolveInWindowExtrapolating(rs, meter, target_date) ==
    LET exact_reading == ReadingOn(rs, meter.id, target_date)
        reading_before == ReadingBefore(rs, meter.id, target_date)
        reading_after == ReadingAfter(rs, meter.id, target_date)
    IN  IF exact_reading # None
        THEN ExactResult(meter, target_date, Get(exact_reading))
        ELSE IF reading_before # None /\ reading_after # None
        THEN InterpolatedResult(meter, target_date,
                                Get(reading_before), Get(reading_after))
        ELSE IF reading_before # None
        THEN ExactResult(meter, target_date, Get(reading_before))
        ELSE InsufficientDataError

\* get_reading_at_date after its window check: the exact reading, else the
\* interpolation between the nearest readings, else InsufficientDataError
ResolveInWindow(rs, meter, target_date) ==
    LET exact_reading == ReadingOn(rs, meter.id, target_date)
        reading_before == ReadingBefore(rs, meter.id, target_date)
        reading_after == ReadingAfter(rs, meter.id, target_date)
    IN  IF exact_reading # None
        THEN ExactResult(meter, target_date, Get(exact_reading))
        ELSE IF reading_before # None /\ reading_after # None
        THEN InterpolatedResult(meter, target_date,
                                Get(reading_before), Get(reading_after))
        ELSE InsufficientDataError

\* a variant that looks for the exact reading before it checks the window
GetReadingAtDateExactFirst(rs, meter, target_date) ==
    IF ReadingOn(rs, meter.id, target_date) # None
    THEN ResolveInWindow(rs, meter, target_date)
    ELSE IF target_date < meter.build_in_date THEN MeterNotActiveError
    ELSE IF meter.out_of_order_date # None
            /\ target_date > Get(meter.out_of_order_date) THEN MeterNotActiveError
    ELSE ResolveInWindow(rs, meter, target_date)

\* MeterReadingManager.get_reading_at_date(meter, target_date) over table rs
GetReadingAtDate(rs, meter, target_date) ==
    IF target_date < meter.build_in_date THEN MeterNotActiveError
    ELSE IF meter.out_of_order_date # None
            /\ target_date > Get(meter.out_of_order_date) THEN MeterNotActiveError
    ELSE ResolveInWindow(rs, meter, target_date)

\* ------------------------------------------- entry points of the store
\* Admin "add" form of MeterReadingAdmin: full_clean (clean + constraint
\* validation), then save
AdminAddReading(id, d, v) ==
    LET self == [meter |-> id, date |-> d, meter_reading |-> v]
    IN  /\ Clean(readings, meters, self)
        /\ UniqueMeterReadingPerDay(readings, None, self)
        /\ readings' = readings \cup {self}
        /\ result' = NoResult
        /\ UNCHANGED <<meters, formulas, calc, apartments, renters,
                 cost_centers, contributions, bill_objects,
                 account_periods>>

\* Admin "change" form: the stored row old gets a new date and value
AdminChangeReading(old, d, v) ==
    LET self == [meter |-> old.meter, date |-> d, meter_reading |-> v]
    IN  /\ self # old
        /\ Clean(readings, meters, self)
        /\ UniqueMeterReadingPerDay(readings, Some(old), self)
        /\ readings' = (readings \ {old}) \cup {self}
        /\ result' = NoResult
        /\ UNCHANGED <<meters, formulas, calc, apartments, renters,
                 cost_centers, contributions, bill_objects,
                 account_periods>>

\* views.meter.meter_readings_save_single: window check, then update_or_create
MeterReadingsSaveSingle(id, target_date, reading_decimal) ==
    LET meter == MeterById(meters, id)
    IN  /\ InWindow(meter, target_date)
        /\ readings' =
              {r \in readings : ~(r.meter = id /\ r.date = target_date)}
              \cup {[meter |-> id, date |-> target_date,
                     meter_reading |-> reading_decimal]}
        /\ result' = NoResult
        /\ UNCHANGED <<meters, formulas, calc, apartments, renters,
                 cost_centers, contributions, bill_objects,
                 account_periods>>

\* views.api.mbus_readings_import, one reading of the posted list.  A reading
\* that is skipped, and a create() that is rejected, leave the table as it
\* is: a stuttering step.  (create() passes auto_reading=True, a field the
\* MeterReading model of models/meter_reading.py does not declare; the action
\* is the build in which the row is stored.)
MbusReadingsImport(id, reading_date, reading_value) ==
    LET meter == MeterById(meters, id)
        previous_reading == ReadingBefore(readings, id, reading_date)
        next_reading == ReadingAfter(readings, id, reading_date)
    IN  /\ ReadingOn(readings, id, reading_date) = None
        /\ InWindow(meter, reading_date)
        /\ ~(/\ previous_reading # None
             /\ reading_value < Get(previous_reading).meter_reading)
        /\ ~(/\ next_reading # None
             /\ reading_value > Get(next_reading).meter_reading)
        /\ readings' = readings \cup {[meter |-> id, date |-> reading_date,
                                       meter_reading |-> reading_value]}
        /\ result' = NoResult
        /\ UNCHANGED <<meters, formulas, calc, apartments, renters,
                 cost_centers, contributions, bill_objects,
                 account_periods>>

\* Admin "change" form of MeterAdmin, field out_of_order_date; the database
\* constraints of Meter.Meta decide whether the row is stored
AdminChangeMeter(id, ooo) ==
    LET old == MeterById(meters, id)
        new == [old EXCEPT !.out_of_order_date = ooo]
        ms == (meters \ {old}) \cup {new}
    IN  /\ new # old
        /\ MeterConstraints(ms)
        /\ meters' = ms
        /\ result' = NoResult
        /\ UNCHANGED <<readings, formulas, calc, apartments, renters,
                 cost_centers, contributions, bill_objects,
                 account_periods>>

\* a caller resolves the reading of a meter at a date
Resolve(id, target_date) ==
    /\ result' = [op |-> "get_reading_at_date", meter |-> id,
                  target_date |-> target_date,
                  r |-> GetReadingAtDate(readings, MeterById(meters, id), target_date)]
    /\ UNCHANGED <<meters, readings, formulas, calc, apartments, renters,
                 cost_centers, contributions, bill_objects,
                 account_periods>>

\* ------------------------------------------------ the reading store: Spec
\* one measuring point with one meter, built in on day 1 and still active
Fleet ==
    {[id |-> 1, place |-> 1, build_in_date |-> 1, out_of_order_date |-> None]}

OptDays == {None} \cup {Some(d) : d \in Days}

Init ==
    /\ meters = Fleet
    /\ readings = {}
    /\ result = NoResult
    /\ bill_objects = {}
    /\ account_periods = {}
    /\ formulas = <<>>
    /\ calc = NoCalc
    /\ apartments = {}
    /\ renters = {}
    /\ cost_centers = {}
    /\ contributions = {}

Next ==
    \/ \E m \in meters, d \in Days, v \in Values : AdminAddReading(m.id, d, v)
    \/ \E old \in readings, d \in Days, v \in Values : AdminChangeReading(old, d, v)
    \/ \E m \in meters, d \in Days, v \in Values : MeterReadingsSaveSingle(m.id, d, v)
    \/ \E m \in meters, d \in Days, v \in Values : MbusReadingsImport(m.id, d, v)
    \/ \E m \in meters, o \in OptDays : AdminChangeMeter(m.id, o)
    \/ \E m \in meters, d \in Days : Resolve(m.id, d)

Spec == Init /\ [][Next]_vars

\* ---------------------------------------------------- claims on the store
\* what a claim reads off the state: the last get_reading_at_date call
Resolved == result.op = "get_reading_at_date"
ResolvedMeter == MeterById(meters, result.meter)

\* the active window [build_in_date, out_of_order_date or open] of a meter
ActiveOn(m, d) ==
    /\ m.build_in_date <= d
    /\ \A o \in {m.out_of_order_date} : o = None \/ d <= o[1]

HasReadingOn(id, d) == \E r \in readings : r.meter = id /\ r.date = d
HasReadingBefore(id, d) == \E r \in readings : r.meter = id /\ r.date < d
HasReadingAfter(id, d) == \E r \in readings : r.meter = id /\ r.date > d

\* b and a are the nearest stored readings strictly before and after day d
Brackets(id, d, b, a) ==
    /\ b.meter = id /\ a.meter = id
    /\ b.date < d /\ d < a.date
    /\ \A r \in readings :
          r.meter = id => ~(b.date < r.date /\ r.date < a.date)

\* C1: for every meter the stored readings are non-decreasing in value when
\* ordered by date, and there is at most one reading per meter per date.
C1_MonotoneAndUnique ==
    \A r1, r2 \in readings :
        r1.meter = r2.meter =>
            /\ (r1.date < r2.date => r1.meter_reading <= r2.meter_reading)
            /\ (r1.date = r2.date => r1 = r2)

\* C2: get_reading_at_date for a date in the active window with no reading on
\* it and nearest readings b before and a after returns
\* b.value + (a.value - b.value) * (target - b.date) / (a.date - b.date),
\* marked not exact, with b and a recorded and the per-day rate
\* (a.value - b.value) / (a.date - b.date); readings 100 on day 0 and 200 on
\* day 10 resolve day 5 to 150.
C2_Interpolation ==
    /\ Resolved =>
         \A b, a \in readings :
            (/\ Brackets(result.meter, result.target_date, b, a)
             /\ ActiveOn(ResolvedMeter, result.target_date))
            => /\ result.r.kind = "ok"
               /\ result.r.calculated_reading =
                     Rat(b.meter_reading * (a.date - b.date)
                           + (a.meter_reading - b.meter_reading)
                               * (result.target_date - b.date),
                         a.date - b.date)
               /\ result.r.is_exact = FALSE
               /\ result.r.reading_before = <<b>>
               /\ result.r.reading_after = <<a>>
               /\ result.r.daily_consumption =
                     <<Rat(a.meter_reading - b.meter_reading, a.date - b.date)>>
    /\ GetReadingAtDate(
          {[meter |-> 1, date |-> 0, meter_reading |-> 100],
           [meter |-> 1, date |-> 10, meter_reading |-> 200]},
          [id |-> 1, place |-> 1, build_in_date |-> 0, out_of_order_date |-> None],
          5).calculated_reading = <<150, 1>>

\* an interpolated result that is no whole number
C2_Witness ==
    /\ Resolved
    /\ result.r.kind = "ok"
    /\ result.r.is_exact = FALSE
    /\ result.r.calculated_reading[2] # 1

\* the value get_reading_at_date resolves for meter m on day d (bracketed days)
ValueAt(m, d) == GetReadingAtDate(readings, m, d).calculated_reading

Interpolated(m, d) ==
    /\ ActiveOn(m, d)
    /\ ~HasReadingOn(m.id, d)
    /\ HasReadingBefore(m.id, d)
    /\ HasReadingAfter(m.id, d)

\* C3: an interpolated value lies between the two bracketing values, and for
\* two interpolated dates d1 <= d2 of a meter the value at d1 is <= the value
\* at d2.
C3_BetweenAndMonotone ==
    \A m \in meters :
        /\ \A d \in Days, b, a \in readings :
              (Interpolated(m, d) /\ Brackets(m.id, d, b, a)) =>
                 \/ /\ RatLe(RatInt(b.meter_reading), ValueAt(m, d))
                    /\ RatLe(ValueAt(m, d), RatInt(a.meter_reading))
                 \/ /\ RatLe(RatInt(a.meter_reading), ValueAt(m, d))
                    /\ RatLe(ValueAt(m, d), RatInt(b.meter_reading))
        /\ \A d1, d2 \in Days :
              (d1 <= d2 /\ Interpolated(m, d1) /\ Interpolated(m, d2)) =>
                 RatLe(ValueAt(m, d1), ValueAt(m, d2))

\* C4: get_reading_at_date fails with MeterNotActive exactly for the target
\* dates outside [build_in_date, out_of_order_date or open], whatever readings
\* are stored.
C4_WindowFirst ==
    Resolved =>
        (result.r.kind = "MeterNotActiveError"
            <=> ~ActiveOn(ResolvedMeter, result.target_date))

\* MeterNotActive for a date that has a stored reading
C4_Witness ==
    /\ Resolved
    /\ result.r.kind = "MeterNotActiveError"
    /\ HasReadingOn(result.meter, result.target_date)

\* C5: inside the active window, with no reading on the target date and a
\* reading before or after it missing, get_reading_at_date fails with
\* InsufficientData and returns no value.
C5_NoExtrapolation ==
    Resolved =>
        ((/\ ActiveOn(ResolvedMeter, result.target_date)
          /\ ~HasReadingOn(result.meter, result.target_date)
          /\ \/ ~HasReadingBefore(result.meter, result.target_date)
             \/ ~HasReadingAfter(result.meter, result.target_date))
         => result.r = InsufficientDataError)

\* InsufficientData with a reading on one side only
C5_Witness ==
    /\ Resolved
    /\ result.r.kind = "InsufficientDataError"
    /\ HasReadingBefore(result.meter, result.target_date)
    /\ ~HasReadingAfter(result.meter, result.target_date)

\* ------------------------------------------------ the Meter table: SpecMeters
Places == {1, 2}

\* Admin "add" form of MeterAdmin; the database constraints of Meter.Meta
\* decide whether the row is stored
AdminAddMeter(p, build_in, ooo) ==
    LET new == [id |-> Cardinality(meters) + 1, place |-> p,
                build_in_date |-> build_in, out_of_order_date |-> ooo]
    IN  /\ Cardinality(meters) < MaxMeters
        /\ MeterConstraints(meters \cup {new})
        /\ meters' = meters \cup {new}
        /\ result' = NoResult
        /\ UNCHANGED <<readings, formulas, calc, apartments, renters,
                 cost_centers, contributions, bill_objects,
                 account_periods>>

InitMeters ==
    /\ meters = {}
    /\ readings = {}
    /\ result = NoResult
    /\ bill_objects = {}
    /\ account_periods = {}
    /\ formulas = <<>>
    /\ calc = NoCalc
    /\ apartments = {}
    /\ renters = {}
    /\ cost_centers = {}
    /\ contributions = {}

NextMeters ==
    \/ \E p \in Places, d \in Days, o \in OptDays : AdminAddMeter(p, d, o)
    \/ \E m \in meters, o \in OptDays : AdminChangeMeter(m.id, o)

SpecMeters == InitMeters /\ [][NextMeters]_vars

\* C6: every MeterPlace has at most one meter whose out_of_order_date is null.
C6_AtMostOneActive ==
    \A p \in Places :
        Cardinality({m \in meters : m.place = p /\ m.out_of_order_date = None}) <= 1

\* a place whose first meter was taken out of order and replaced by the
\* active one
C6_Witness ==
    \E a, b \in meters :
        /\ a.place = b.place
        /\ a.id < b.id
        /\ a.out_of_order_date # None
        /\ b.out_of_order_date = None

\* ------------------------------------------- meter-place billing (4.2)
\* meter_set.filter(build_in_date__lte=end_date,
\*                  out_of_order_date null or >= start_date)
SelectedMeters(ms, p, start_date, end_date) ==
    {m \in ms :
        /\ m.place = p
        /\ m.build_in_date <= end_date
        /\ IF m.out_of_order_date = None THEN TRUE
           ELSE Get(m.out_of_order_date) >= start_date}

\* .order_by('build_in_date'): the rows as a sequence (equal dates by id)
RECURSIVE OrderByBuildInDate(_)
OrderByBuildInDate(ms) ==
    IF ms = {} THEN <<>>
    ELSE LET first == CHOOSE m \in ms : \A o \in ms :
                          \/ m.build_in_date < o.build_in_date
                          \/ (m.build_in_date = o.build_in_date /\ m.id <= o.id)
         IN  <<first>> \o OrderByBuildInDate(ms \ {first})

MeterStart(meter, start_date) == Max2(start_date, meter.build_in_date)

MeterEnd(meter, end_date) ==
    IF meter.out_of_order_date # None
    THEN Min2(end_date, Get(meter.out_of_order_date))
    ELSE end_date

\* a variant that counts the days of the half-open period
DaysActiveExclusive(meter_start, meter_end) == meter_end - meter_start

\* days_active = (meter_end - meter_start).days + 1
DaysActive(meter_start, meter_end) == (meter_end - meter_start) + 1

MeterCalculationError(meter, cause) ==
    [kind |-> "MeterCalculationError", meter |-> meter.id, cause |-> cause]

\* one pass of the loop body of calculate_billing: the MeterPeriod of the
\* meter, or the MeterCalculationError it raises
MeterPeriodOf(rs, meter, start_date, end_date) ==
    LET meter_start == MeterStart(meter, start_date)
        meter_end == MeterEnd(meter, end_date)
        days_active == DaysActive(meter_start, meter_end)
    IN  IF days_active <= 0 THEN MeterCalculationError(meter, "not active")
        ELSE
        LET start_reading == GetReadingAtDate(rs, meter, meter_start)
        IN  IF start_reading.kind # "ok"
            THEN MeterCalculationError(meter, start_reading.kind)
            ELSE
            LET end_reading == GetReadingAtDate(rs, meter, meter_end)
            IN  IF end_reading.kind # "ok"
                THEN MeterCalculationError(meter, end_reading.kind)
                ELSE [kind |-> "ok", meter |-> meter.id,
                      period_start |-> meter_start, period_end |-> meter_end,
                      days_active |-> days_active,
                      start_reading |-> start_reading,
                      end_reading |-> end_reading,
                      consumption |-> RatSub(end_reading.calculated_reading,
                                             start_reading.calculated_reading)]

\* a variant of the loop that leaves out a meter it cannot compute
RECURSIVE BillingLoopSkipping(_, _, _, _, _, _)
BillingLoopSkipping(rs, ordered, i, start_date, end_date, acc) ==
    IF i > Len(ordered) THEN acc
    ELSE LET mp == MeterPeriodOf(rs, ordered[i], start_date, end_date)
         IN  IF mp.kind # "ok"
             THEN BillingLoopSkipping(rs, ordered, i + 1, start_date, end_date, acc)
             ELSE BillingLoopSkipping(rs, ordered, i + 1, start_date, end_date,
                     [acc EXCEPT
                        !.meter_periods = Append(@, mp),
                        !.total_consumption = RatAdd(@, mp.consumption),
                        !.total_days_active = @ + mp.days_active])

\* the loop "for meter in meters" from its i-th meter on; acc holds
\* meter_periods, total_consumption and total_days_active so far
RECURSIVE BillingLoop(_, _, _, _, _, _)
BillingLoop(rs, ordered, i, start_date, end_date, acc) ==
    IF i > Len(ordered) THEN acc
    ELSE LET mp == MeterPeriodOf(rs, ordered[i], start_date, end_date)
         IN  IF mp.kind # "ok" THEN mp
             ELSE BillingLoop(rs, ordered, i + 1, start_date, end_date,
                     [acc EXCEPT
                        !.meter_periods = Append(@, mp),
                        !.total_consumption = RatAdd(@, mp.consumption),
                        !.total_days_active = @ + mp.days_active])

\* MeterPlace.calculate_billing(start_date, end_date) of place p
CalculateBilling(ms, rs, p, start_date, end_date) ==
    IF start_date >= end_date THEN [kind |-> "ValueError"]
    ELSE LET selected == SelectedMeters(ms, p, start_date, end_date)
         IN  IF selected = {} THEN [kind |-> "NoActiveMetersError"]
             ELSE BillingLoop(rs, OrderByBuildInDate(selected), 1,
                              start_date, end_date,
                              [kind |-> "ok", meter_place |-> p,
                               billing_period_start |-> start_date,
                               billing_period_end |-> end_date,
                               meter_periods |-> <<>>,
                               total_consumption |-> RatInt(0),
                               total_days_active |-> 0])

\* a caller bills place p over start_date .. end_date
Billing(p, start_date, end_date) ==
    /\ result' = [op |-> "calculate_billing", place |-> p,
                  start_date |-> start_date, end_date |-> end_date,
                  r |-> CalculateBilling(meters, readings, p, start_date, end_date)]
    /\ UNCHANGED <<meters, readings, formulas, calc, apartments, renters,
                 cost_centers, contributions, bill_objects,
                 account_periods>>

\* place 1: a meter that was replaced on day MaxDay - 1 by the active meter;
\* place 2 has no meter
ReplacedFleet ==
    {[id |-> 1, place |-> 1, build_in_date |-> MaxDay - 3,
      out_of_order_date |-> Some(MaxDay - 1)],
     [id |-> 2, place |-> 1, build_in_date |-> MaxDay - 1,
      out_of_order_date |-> None]}

InitBilling ==
    /\ meters = ReplacedFleet
    /\ readings = {}
    /\ result = NoResult
    /\ bill_objects = {}
    /\ account_periods = {}
    /\ formulas = <<>>
    /\ calc = NoCalc
    /\ apartments = {}
    /\ renters = {}
    /\ cost_centers = {}
    /\ contributions = {}

NextBilling ==
    \/ \E m \in meters, d \in Days, v \in Values : MeterReadingsSaveSingle(m.id, d, v)
    \/ \E p \in Places, s \in Days, e \in Days : Billing(p, s, e)

SpecBilling == InitBilling /\ [][NextBilling]_vars

\* ------------------------------------------------- claims on the billing
Billed == result.op = "calculate_billing"
Periods == {result.r.meter_periods[i] : i \in 1..Len(result.r.meter_periods)}

\* the clipped sub-period [max(start, build_in), min(end, out_of_order or end)]
ClipStart(m, s) == IF m.build_in_date > s THEN m.build_in_date ELSE s
ClipEnd(m, e) ==
    IF m.out_of_order_date = None THEN e
    ELSE IF m.out_of_order_date[1] < e THEN m.out_of_order_date[1] ELSE e

\* the meters calculate_billing selects for the last call
Selected ==
    {m \in meters :
        /\ m.place = result.place
        /\ m.build_in_date <= result.end_date
        /\ \A o \in {m.out_of_order_date} : o = None \/ o[1] >= result.start_date}

\* C7 as stated: every meter period of a successful result has
\* period_start < period_end (its clipped sub-period is longer than 0 days).
C7_PositiveLength ==
    (Billed /\ result.r.kind = "ok") =>
        \A mp \in Periods : mp.period_start < mp.period_end

\* C7 as amended: each meter period of a successful result is the clipped
\* sub-period [max(start, build_in_date), min(end, out_of_order_date or end)]
\* of its meter, its days_active is (period_end - period_start) + 1 and is
\* > 0, so period_start <= period_end; a selected meter whose day count is
\* not > 0 makes the call fail with MeterCalculationError naming it.
C7_ClippedInclusive ==
    Billed =>
        /\ result.r.kind = "ok" =>
              \A mp \in Periods :
                 LET m == MeterById(meters, mp.meter)
                 IN  /\ m \in Selected
                     /\ mp.period_start = ClipStart(m, result.start_date)
                     /\ mp.period_end = ClipEnd(m, result.end_date)
                     /\ mp.days_active = (mp.period_end - mp.period_start) + 1
                     /\ mp.days_active > 0
                     /\ mp.period_start <= mp.period_end
        /\ (/\ result.start_date < result.end_date
            /\ \E m \in Selected :
                  (ClipEnd(m, result.end_date) - ClipStart(m, result.start_date)) + 1 <= 0)
           => result.r.kind = "MeterCalculationError"

\* a successful result with a meter period of one day, period_start = period_end
C7_Witness ==
    /\ Billed
    /\ result.r.kind = "ok"
    /\ \E mp \in Periods : mp.period_start = mp.period_end /\ mp.days_active = 1

RECURSIVE SumConsumption(_)
SumConsumption(ms) ==
    IF ms = {} THEN RatInt(0)
    ELSE LET m == CHOOSE m \in ms : TRUE
         IN  RatAdd(RatSub(ValueAt(m, ClipEnd(m, result.end_date)),
                           ValueAt(m, ClipStart(m, result.start_date))),
                    SumConsumption(ms \ {m}))

RECURSIVE SumDays(_)
SumDays(ms) ==
    IF ms = {} THEN 0
    ELSE LET m == CHOOSE m \in ms : TRUE
         IN  (ClipEnd(m, result.end_date) - ClipStart(m, result.start_date)) + 1
             + SumDays(ms \ {m})

Resolvable(m, d) == GetReadingAtDate(readings, m, d).kind = "ok"

\* C8: for start < end, when the readings at both ends of every selected
\* meter's clipped sub-period resolve, the call succeeds, lists the selected
\* meters in build_in_date order, total_consumption is the sum over them of
\* (resolved end reading - resolved start reading) and total_days_active the
\* sum of their active days; when a reading of a selected meter does not
\* resolve, the call fails and returns no total.
C8_Totals ==
    (Billed /\ result.start_date < result.end_date /\ Selected # {}) =>
        IF \A m \in Selected :
              /\ Resolvable(m, ClipStart(m, result.start_date))
              /\ Resolvable(m, ClipEnd(m, result.end_date))
        THEN /\ result.r.kind = "ok"
             /\ result.r.total_consumption = SumConsumption(Selected)
             /\ result.r.total_days_active = SumDays(Selected)
             /\ {mp.meter : mp \in Periods} = {m.id : m \in Selected}
             /\ Len(result.r.meter_periods) = Cardinality(Selected)
             /\ \A i, j \in 1..Len(result.r.meter_periods) :
                   i < j => MeterById(meters, result.r.meter_periods[i].meter).build_in_date
                            <= MeterById(meters, result.r.meter_periods[j].meter).build_in_date
        ELSE /\ result.r.kind = "MeterCalculationError"
             /\ DOMAIN result.r = {"kind", "meter", "cause"}

\* a total over the replaced and the active meter, both consuming
C8_Witness ==
    /\ Billed
    /\ result.r.kind = "ok"
    /\ Len(result.r.meter_periods) = 2
    /\ \A mp \in Periods : ~RatIsZero(mp.consumption)

\* a call that fails at its second meter after its first meter was computed
C8_WitnessFailure ==
    /\ Billed
    /\ result.r.kind = "MeterCalculationError"
    /\ result.r.meter = 2
    /\ Cardinality(Selected) = 2

\* ------------------------------------------- formula evaluator (4.3)
\* MeterPlace.type of the two places and MeterPlace.unit
PlaceType(p) == IF p = 1 THEN "EL" ELSE "KW"

MeterPlaceUnit(p) ==
    CASE PlaceType(p) \in {"EL", "GA", "HE"} -> "kWh"
      [] PlaceType(p) \in {"KW", "WW"} -> "m3"
      [] PlaceType(p) = "OI" -> "Liter"
      [] OTHER -> ""

\* a variant that subtracts the running result from the argument
ApplyOperatorSwapped(operand1, operator, operand2) ==
    CASE operator = "+" -> [kind |-> "ok", value |-> RatAdd(operand1, operand2)]
      [] operator = "-" -> [kind |-> "ok", value |-> RatSub(operand2, operand1)]
      [] operator = "*" -> [kind |-> "ok", value |-> RatMul(operand1, operand2)]
      [] operator = "/" ->
            IF RatIsZero(operand2)
            THEN [kind |-> "ValueError", reason |-> "division by zero"]
            ELSE [kind |-> "ok", value |-> RatDiv(operand1, operand2)]
      [] operator = " " -> [kind |-> "ok", value |-> operand1]
      [] OTHER -> [kind |-> "ValueError", reason |-> "unknown operator"]

\* ConsumptionCalc._apply_operator: the value, or the ValueError it raises
ApplyOperator(operand1, operator, operand2) ==
    CASE operator = "+" -> [kind |-> "ok", value |-> RatAdd(operand1, operand2)]
      [] operator = "-" -> [kind |-> "ok", value |-> RatSub(operand1, operand2)]
      [] operator = "*" -> [kind |-> "ok", value |-> RatMul(operand1, operand2)]
      [] operator = "/" ->
            IF RatIsZero(operand2)
            THEN [kind |-> "ValueError", reason |-> "division by zero"]
            ELSE [kind |-> "ok", value |-> RatDiv(operand1, operand2)]
      [] operator = " " -> [kind |-> "ok", value |-> operand1]
      [] OTHER -> [kind |-> "ValueError", reason |-> "unknown operator"]

\* ConsumptionCalc._combine_units; "x" is written for the multiplication sign
\* of the source and "m3" for its cubic metres
CombineUnits(unit1, unit2, operator) ==
    IF operator = "+" \/ operator = "-"
    THEN IF unit1 = unit2 THEN unit1
         ELSE IF unit1 # "" /\ unit2 = "" THEN unit1
         ELSE IF unit2 # "" /\ unit1 = "" THEN unit2
         ELSE IF unit1 # "" /\ unit2 # "" THEN unit1 \o "+" \o unit2 ELSE ""
    ELSE IF operator = "*"
    THEN IF unit2 = "" \/ unit2 = "%" THEN unit1
         ELSE IF unit1 = "" \/ unit1 = "%" THEN unit2
         ELSE IF unit1 # "" /\ unit2 # "" THEN unit1 \o "x" \o unit2 ELSE ""
    ELSE IF operator = "/"
    THEN IF unit2 = "" \/ unit2 = "%" THEN unit1
         ELSE IF unit1 # "" /\ unit2 # ""
              THEN IF unit1 = unit2 THEN "" ELSE unit1 \o "/" \o unit2
         ELSE IF unit1 # "" THEN unit1 ELSE ""
    ELSE unit1

\* a variant that ignores the unit set on the argument
GetUnitFromSourceOnly(arg, source_type, source_unit) ==
    IF source_type = "meter_place" THEN source_unit
    ELSE IF source_type = "nested_calculation" THEN source_unit
    ELSE ""

\* ConsumptionCalc._get_unit_from_arg_object; source_unit is the unit of the
\* MeterPlace, or of the last step of the nested result
GetUnitFromArgObject(arg, source_type, source_unit) ==
    IF arg.unit = "%" THEN ""
    ELSE IF arg.unit # "" THEN arg.unit
    ELSE IF source_type = "meter_place" THEN source_unit
    ELSE IF source_type = "nested_calculation" THEN source_unit
    ELSE ""

\* a CalculationStep, reduced to its type, operands, result and unit
Step(step_type, operand1, operator, operand2, res, unit) ==
    [step_type |-> step_type, operand1 |-> operand1, operator |-> operator,
     operand2 |-> operand2, result |-> res, unit |-> unit]

\* a variant that evaluates a formula from its own start_date on
FrameFromOwnStart(id, start_date, end_date) ==
    [id |-> id, start_date |-> formulas[id].start_date, end_date |-> end_date,
     pc |-> "validate", argument_results |-> <<>>, values |-> <<>>,
     steps |-> <<>>, i |-> 0, result |-> RatInt(0)]

\* the local variables of one running calculate(start_date, end_date) call
Frame(id, start_date, end_date) ==
    [id |-> id, start_date |-> start_date, end_date |-> end_date,
     pc |-> "validate", argument_results |-> <<>>, values |-> <<>>,
     steps |-> <<>>, i |-> 0,
     result |-> RatInt(0)]

Top == calc.stack[Len(calc.stack)]

RECURSIVE OrderByPosition(_)
\* rows.order_by('position'); positions are unique within one formula
OrderByPosition(rows) ==
    IF rows = {} THEN <<>>
    ELSE LET first == CHOOSE a \in rows : \A b \in rows : a.position <= b.position
         IN  <<first>> \o OrderByPosition(rows \ {first})

\* self.arguments.all().order_by('position') of formula id
Arguments(id) == OrderByPosition(formulas[id].arguments)
Running == calc.status = "running"

\* a ValueError as it leaves the frames `catching`, innermost last: each of
\* them is inside the try of its argument loop and re-raises the error with
\* its own name, id and period in front
WrapValueError(err, catching) ==
    [err EXCEPT
       !.names = @ \cup {catching[k].id : k \in 1..Len(catching)},
       !.periods = @ \cup {<<catching[k].start_date, catching[k].end_date>> :
                             k \in 1..Len(catching)}]

\* the evaluation ends with an exception
Raised(err) ==
    calc' = [calc EXCEPT !.status = "error", !.stack = <<>>, !.outcome = err]

\* ConsumptionCalc.ArgumentResult, without the MeterPlace billing details
ArgumentResult(source_type, value, nested_result) ==
    [source_type |-> source_type, value |-> value,
     nested_result |-> nested_result]

\* the frame after arguments.append / values.append / calculation_steps.append
\* for one more argument; after the last argument the combine loop starts
\* with result = values[0]
AfterArgument(fr, arg_result, u) ==
    LET rs == Append(fr.argument_results, arg_result)
        vs == Append(fr.values, arg_result.value)
        st == Append(fr.steps,
                     Step("argument", None, None, None, arg_result.value, u))
    IN  IF Len(vs) = Len(Arguments(fr.id))
        THEN [fr EXCEPT !.argument_results = rs, !.values = vs, !.steps = st,
                        !.pc = "combine", !.result = vs[1], !.i = 1]
        ELSE [fr EXCEPT !.argument_results = rs, !.values = vs, !.steps = st]

ReplaceTop(fr) ==
    [calc EXCEPT !.stack = SubSeq(@, 1, Len(@) - 1) \o <<fr>>]

\* a caller evaluates formula id over start_date .. end_date; calculate
\* writes nothing to the tables, so a behaviour follows one call from the
\* stored formulas to its outcome
CalcCall(id, start_date, end_date) ==
    /\ calc.status = "idle"
    /\ calc' = [status |-> "running",
                call |-> [id |-> id, start_date |-> start_date,
                          end_date |-> end_date],
                stack |-> <<Frame(id, start_date, end_date)>>,
                evaluated |-> 0,
                outcome |-> None]
    /\ UNCHANGED <<meters, readings, result, formulas, apartments, renters,
                 cost_centers, contributions, bill_objects,
                 account_periods>>

\* calculate, lines 251-272: the range checks and the argument list
CalcValidate ==
    /\ Running
    /\ Top.pc = "validate"
    /\ LET f == formulas[Top.id]
           below == SubSeq(calc.stack, 1, Len(calc.stack) - 1)
           err(reason, named) ==
               WrapValueError([kind |-> "ValueError", reason |-> reason,
                               raised_by |-> Top.id,
                               names |-> IF named THEN {Top.id} ELSE {},
                               periods |-> {}], below)
       IN  IF Top.start_date >= Top.end_date
           THEN Raised(err("start not before end", FALSE))
           ELSE IF Top.start_date < f.start_date
           THEN Raised(err("start before start_date", TRUE))
           ELSE IF f.end_date # None /\ Top.end_date > Get(f.end_date)
           THEN Raised(err("end after end_date", TRUE))
           ELSE IF Len(Arguments(Top.id)) = 0
           THEN Raised(err("no arguments", TRUE))
           ELSE calc' = ReplaceTop([Top EXCEPT !.pc = "arguments"])
    /\ UNCHANGED <<meters, readings, result, formulas, apartments, renters,
                 cost_centers, contributions, bill_objects,
                 account_periods>>

\* a variant with a cycle guard: a formula that is being evaluated is not
\* called again
NestedCallGuarded(arg) ==
    IF \E k \in 1..Len(calc.stack) : calc.stack[k].id = Get(arg.nested_calc)
    THEN calc' = [calc EXCEPT !.evaluated = @ + 1, !.status = "error",
                              !.stack = <<>>,
                              !.outcome = [kind |-> "ValueError",
                                           reason |-> "cycle",
                                           raised_by |-> Top.id, names |-> {},
                                           periods |-> {}]]
    ELSE /\ Len(calc.stack) < MaxDepth
         /\ calc' = [calc EXCEPT !.evaluated = @ + 1,
                                 !.stack =
                                    Append(@, Frame(Get(arg.nested_calc),
                                                    Top.start_date,
                                                    Top.end_date))]

\* _calculate_single_argument, lines 441-443: the nested formula is called
\* with the same period, whatever formulas are being evaluated; the stack of
\* the interpreter has room for MaxDepth calls
NestedCall(arg) ==
    /\ Len(calc.stack) < MaxDepth
    /\ calc' = [calc EXCEPT !.evaluated = @ + 1,
                            !.stack =
                               Append(@, Frame(Get(arg.nested_calc),
                                               Top.start_date, Top.end_date))]

\* calculate, lines 276-299, one pass of the argument loop with
\* _calculate_single_argument: a nested formula is called, a MeterPlace is
\* billed, a fixed value is taken (a percentage divided by 100)
CalcArgument ==
    /\ Running
    /\ Top.pc = "arguments"
    /\ LET f == formulas[Top.id]
           arg == Arguments(Top.id)[Len(Top.values) + 1]
           counted == [calc EXCEPT !.evaluated = @ + 1]
       IN  IF arg.nested_calc # None
           THEN NestedCall(arg)
           ELSE IF arg.meter_place # None
           THEN LET billing_calculation ==
                        CalculateBilling(meters, readings, Get(arg.meter_place),
                                         Top.start_date, Top.end_date)
                IN  IF billing_calculation.kind = "ok"
                    THEN calc' = [counted EXCEPT !.stack =
                            SubSeq(@, 1, Len(@) - 1) \o
                            <<AfterArgument(Top,
                                ArgumentResult("meter_place",
                                    billing_calculation.total_consumption, None),
                                GetUnitFromArgObject(arg, "meter_place",
                                    MeterPlaceUnit(Get(arg.meter_place))))>>]
                    ELSE IF billing_calculation.kind = "ValueError"
                    THEN calc' = [counted EXCEPT !.status = "error",
                            !.stack = <<>>,
                            !.outcome = WrapValueError(
                                [kind |-> "ValueError",
                                 reason |-> "billing start not before end",
                                 raised_by |-> Top.id, names |-> {},
                                 periods |-> {}], calc.stack)]
                    ELSE calc' = [counted EXCEPT !.status = "error",
                            !.stack = <<>>,
                            !.outcome = [kind |-> billing_calculation.kind,
                                         reason |-> "billing",
                                         raised_by |-> Top.id, names |-> {},
                                         periods |-> {}]]
           ELSE IF arg.value # None
           THEN LET calculated_value ==
                        IF arg.unit = "%" THEN Rat(Get(arg.value), 100)
                        ELSE RatInt(Get(arg.value))
                IN  calc' = [counted EXCEPT !.stack =
                        SubSeq(@, 1, Len(@) - 1) \o
                        <<AfterArgument(Top,
                              ArgumentResult("value", calculated_value, None),
                              GetUnitFromArgObject(arg, "value", ""))>>]
           ELSE calc' = [counted EXCEPT !.status = "error", !.stack = <<>>,
                    !.outcome = WrapValueError(
                        [kind |-> "ValueError", reason |-> "argument without source",
                         raised_by |-> Top.id, names |-> {}, periods |-> {}],
                        calc.stack)]
    /\ UNCHANGED <<meters, readings, result, formulas, apartments, renters,
                 cost_centers, contributions, bill_objects,
                 account_periods>>

\* calculate, lines 301-397, one pass of the combine loop (the two branches
\* on the operator run the same statements)
CalcCombine ==
    /\ Running
    /\ Top.pc = "combine"
    /\ Top.i < Len(Top.values)
    /\ LET f == formulas[Top.id]
           below == SubSeq(calc.stack, 1, Len(calc.stack) - 1)
           old_result == Top.result
           applied == ApplyOperator(Top.result, f.operator, Top.values[Top.i + 1])
           unit1 == Top.steps[Top.i].unit
           unit2 == Top.steps[Top.i + 1].unit
           result_unit == CombineUnits(unit1, unit2, f.operator)
       IN  IF applied.kind # "ok"
           THEN Raised(WrapValueError(
                    [kind |-> "ValueError", reason |-> applied.reason,
                     raised_by |-> Top.id, names |-> {}, periods |-> {}], below))
           ELSE calc' = ReplaceTop(
                    [Top EXCEPT
                       !.result = applied.value,
                       !.i = @ + 1,
                       !.steps = Append(@, Step("operation", Some(old_result),
                                                Some(f.operator),
                                                Some(Top.values[Top.i + 1]),
                                                applied.value, result_unit))])
    /\ UNCHANGED <<meters, readings, result, formulas, apartments, renters,
                 cost_centers, contributions, bill_objects,
                 account_periods>>

\* calculate, lines 399-431: the result step and the return; a nested call
\* returns into the argument loop of its caller (lines 443-450)
CalcReturn ==
    /\ Running
    /\ Top.pc = "combine"
    /\ Top.i >= Len(Top.values)
    /\ LET final_unit == Top.steps[Len(Top.steps)].unit
           returned ==
               [kind |-> "ok", consumption_calc |-> Top.id,
                calculation_period_start |-> Top.start_date,
                calculation_period_end |-> Top.end_date,
                argument_results |-> Top.argument_results,
                argument_values |-> Top.values,
                final_result |-> Top.result,
                final_unit |-> final_unit,
                calculation_steps |->
                    Append(Top.steps, Step("result", None, None, None,
                                           Top.result, final_unit))]
       IN  IF Len(calc.stack) = 1
           THEN calc' = [calc EXCEPT !.status = "done", !.stack = <<>>,
                                     !.outcome = returned]
           ELSE LET caller == calc.stack[Len(calc.stack) - 1]
                    arg == Arguments(caller.id)[Len(caller.values) + 1]
                IN  calc' = [calc EXCEPT !.stack =
                        SubSeq(@, 1, Len(@) - 2) \o
                        <<AfterArgument(caller,
                              ArgumentResult("nested_calculation",
                                  returned.final_result, Some(returned)),
                              GetUnitFromArgObject(arg, "nested_calculation",
                                                   final_unit))>>]
    /\ UNCHANGED <<meters, readings, result, formulas, apartments, renters,
                 cost_centers, contributions, bill_objects,
                 account_periods>>

\* ConsumptionCalcArgument rows an admin can save (clean: exactly one source)
ValueArg(v, unit) ==
    [meter_place |-> None, value |-> Some(v), nested_calc |-> None, unit |-> unit]

MeterPlaceArg(p, unit) ==
    [meter_place |-> Some(p), value |-> None, nested_calc |-> None, unit |-> unit]

NestedArg(id, unit) ==
    [meter_place |-> None, value |-> None, nested_calc |-> Some(id), unit |-> unit]

ArgChoices ==
    {ValueArg(0, ""), ValueArg(2, "kWh"), ValueArg(3, "%"),
     MeterPlaceArg(1, ""), NestedArg(2, ""), NestedArg(2, "m3")}

Operators == {"+", "-", "*", "/", " "}

\* the rows of one formula from the sources in position order
ArgumentRows(sources) ==
    {[position |-> k, meter_place |-> sources[k].meter_place,
      value |-> sources[k].value, nested_calc |-> sources[k].nested_calc,
      unit |-> sources[k].unit] : k \in 1..Len(sources)}

SourceLists == UNION {[1..n -> ArgChoices] : n \in 0..MaxArgs}

ConsumptionCalcRow(id, operator, start_date, end_date, sources) ==
    [id |-> id, operator |-> operator, start_date |-> start_date,
     end_date |-> end_date, arguments |-> ArgumentRows(sources)]

\* formula 2 is the nested one: a fixed value times a percentage, valid from
\* day 1 on
NestedFormula ==
    ConsumptionCalcRow(2, "*", 1, None, <<ValueArg(2, "kWh"), ValueArg(3, "%")>>)

\* validity windows of formula 1
Windows == {<<0, None>>, <<1, None>>, <<0, Some(MaxCalcDay - 1)>>}

CalcDays == 0..MaxCalcDay

\* place 1 has one meter with readings on day 0 and on the last day;
\* place 2 has none
CalcFleet ==
    {[id |-> 1, place |-> 1, build_in_date |-> 0, out_of_order_date |-> None]}

CalcReadings ==
    {[meter |-> 1, date |-> 0, meter_reading |-> 0],
     [meter |-> 1, date |-> MaxCalcDay, meter_reading |-> MaxValue]}

InitCalc ==
    /\ meters = CalcFleet
    /\ readings = CalcReadings
    /\ result = NoResult
    /\ bill_objects = {}
    /\ account_periods = {}
    /\ \E operator \in Operators, w \in Windows, sources \in SourceLists :
          formulas = (1 :> ConsumptionCalcRow(1, operator, w[1], w[2], sources))
                     @@ (2 :> NestedFormula)
    /\ calc = NoCalc
    /\ apartments = {}
    /\ renters = {}
    /\ cost_centers = {}
    /\ contributions = {}

NextCalc ==
    \/ \E id \in DOMAIN formulas, start_date \in CalcDays, end_date \in CalcDays :
          CalcCall(id, start_date, end_date)
    \/ CalcValidate
    \/ CalcArgument
    \/ CalcCombine
    \/ CalcReturn

SpecCalc == InitCalc /\ [][NextCalc]_vars

\* formulas that may reference themselves and each other: the sources of
\* formula 1, which adds, and of formula 2, which divides
CycleSources(choices) == UNION {[1..n -> choices] : n \in 1..2}

CycleWindows == {<<0, None>>, <<1, None>>}

InitCycle ==
    /\ meters = CalcFleet
    /\ readings = CalcReadings
    /\ result = NoResult
    /\ bill_objects = {}
    /\ account_periods = {}
    /\ \E w1 \in CycleWindows, w2 \in CycleWindows,
          s1 \in CycleSources({ValueArg(2, "kWh"), NestedArg(1, ""),
                               NestedArg(2, "")}),
          s2 \in CycleSources({ValueArg(2, "kWh"), ValueArg(0, ""),
                               NestedArg(1, "")}) :
          formulas = (1 :> ConsumptionCalcRow(1, "+", w1[1], w1[2], s1))
                     @@ (2 :> ConsumptionCalcRow(2, "/", w2[1], w2[2], s2))
    /\ calc = NoCalc
    /\ apartments = {}
    /\ renters = {}
    /\ cost_centers = {}
    /\ contributions = {}

\* a running calculate call takes its next step
CalcStep == CalcValidate \/ CalcArgument \/ CalcCombine \/ CalcReturn

SpecCycle == InitCycle /\ [][NextCalc]_vars /\ WF_vars(CalcStep)

\* ------------------------------------------- formula evaluator: claims
Called == calc.status # "idle"
CalledFormula == formulas[calc.call.id]

\* the three range conditions of calculate for formula f
InvalidRange(f, start_date, end_date) ==
    \/ start_date >= end_date
    \/ start_date < f.start_date
    \/ IF f.end_date = None THEN FALSE ELSE end_date > Get(f.end_date)

RangeReasons ==
    {"start not before end", "start before start_date", "end after end_date"}

\* C9: calculate(start, end) fails with a range error whose message names the
\* formula whenever start >= end, or start is before the formula's
\* start_date, or end is after its end_date; this happens before any argument
\* is evaluated, and a period that meets all three conditions is never
\* rejected by the range check.
C9_InvalidRange ==
    Called =>
      /\ InvalidRange(CalledFormula, calc.call.start_date, calc.call.end_date) =>
            IF calc.status = "running"
            THEN Len(calc.stack) = 1 /\ Top.pc = "validate"
            ELSE /\ calc.status = "error"
                 /\ calc.outcome.kind = "ValueError"
                 /\ calc.outcome.reason \in RangeReasons
                 /\ calc.call.id \in calc.outcome.names
                 /\ calc.evaluated = 0
      /\ IF calc.status = "error"
         THEN (calc.outcome.reason \in RangeReasons
               /\ calc.outcome.raised_by = calc.call.id) =>
                 InvalidRange(CalledFormula, calc.call.start_date,
                              calc.call.end_date)
         ELSE TRUE

C10_Apply(a, operator, b) ==
    CASE operator = "+" -> RatAdd(a, b)
      [] operator = "-" -> RatSub(a, b)
      [] operator = "*" -> RatMul(a, b)
      [] operator = "/" -> RatDiv(a, b)

RECURSIVE C10_Fold(_, _, _)
C10_Fold(operator, a, n) ==
    IF n = 1 THEN a[1]
    ELSE C10_Apply(C10_Fold(operator, a, n - 1), operator, a[n])

\* the value _calculate_single_argument gives a fixed-value or MeterPlace row
C10_Source(arg, start_date, end_date) ==
    IF arg.value # None
    THEN IF arg.unit = "%" THEN Rat(Get(arg.value), 100) ELSE RatInt(Get(arg.value))
    ELSE CalculateBilling(meters, readings, Get(arg.meter_place),
                          start_date, end_date).total_consumption

\* C10: with operator +, -, * or / the n >= 1 argument values are taken in
\* position order and combined strictly from the left: every running
\* combine loop holds the left fold of the values it has consumed, and the
\* returned final_result is the left fold of all n values.
C10_LeftFold ==
    /\ \A k \in 1..(IF calc.status = "running" THEN Len(calc.stack) ELSE 0) :
          LET fr == calc.stack[k]
              f == formulas[fr.id]
          IN  (fr.pc = "combine" /\ f.operator \in {"+", "-", "*", "/"}) =>
                 /\ fr.i >= 1
                 /\ fr.result = C10_Fold(f.operator, fr.values, fr.i)
    /\ IF calc.status = "done"
       THEN LET f == CalledFormula
                a == calc.outcome.argument_values
                args == Arguments(f.id)
            IN  f.operator \in {"+", "-", "*", "/"} =>
                  /\ Len(a) >= 1
                  /\ Len(a) = Cardinality(f.arguments)
                  /\ \A j \in 1..Len(a) :
                        args[j].nested_calc = None =>
                          a[j] = C10_Source(args[j], calc.call.start_date,
                                            calc.call.end_date)
                  /\ calc.outcome.final_result = C10_Fold(f.operator, a, Len(a))
       ELSE TRUE

\* three values under "-" whose left fold differs from the right-grouped one
C10_Witness ==
    IF calc.status = "done"
    THEN LET a == calc.outcome.argument_values
         IN  /\ CalledFormula.operator = "-"
             /\ Len(a) = 3
             /\ calc.outcome.final_result = RatSub(RatSub(a[1], a[2]), a[3])
             /\ calc.outcome.final_result # RatSub(a[1], RatSub(a[2], a[3]))
    ELSE FALSE

\* a '/' formula one of whose arguments after the first evaluated to zero
DividesByZero(operator, a) ==
    /\ operator = "/"
    /\ \E k \in 2..Len(a) : RatIsZero(a[k])

\* C11: dividing by an argument whose value is zero ends the evaluation with
\* a division-by-zero error and no result, and the error that calculate
\* raises for formula F over start .. end names F and carries the period.
C11_DivisionByZero ==
    /\ IF calc.status = "done"
       THEN ~DividesByZero(CalledFormula.operator, calc.outcome.argument_values)
       ELSE TRUE
    /\ \A k \in 1..(IF calc.status = "running" THEN Len(calc.stack) ELSE 0) :
          LET fr == calc.stack[k]
          IN  fr.pc = "combine" =>
                ~DividesByZero(formulas[fr.id].operator, SubSeq(fr.values, 1, fr.i))
    /\ IF calc.status = "error"
       THEN calc.outcome.reason = "division by zero" =>
              /\ calc.outcome.kind = "ValueError"
              /\ calc.outcome.raised_by \in calc.outcome.names
              /\ <<calc.call.start_date, calc.call.end_date>> \in calc.outcome.periods
       ELSE TRUE

\* value and unit of the nested formula 2, a product of fixed values, from
\* its rows
NestedSources ==
    [k \in 1..Cardinality(formulas[2].arguments) |->
        C10_Source(Arguments(2)[k], 0, 1)]

NestedValue == C10_Fold(formulas[2].operator, NestedSources, Len(NestedSources))
NestedUnit == "kWh"

\* the value one argument of the called formula stands for
C12_Value(arg) ==
    IF arg.nested_calc # None THEN NestedValue
    ELSE C10_Source(arg, calc.call.start_date, calc.call.end_date)

\* the unit of the source behind an argument that sets no unit itself
C12_SourceUnit(arg) ==
    IF arg.meter_place # None THEN MeterPlaceUnit(Get(arg.meter_place))
    ELSE IF arg.nested_calc # None THEN NestedUnit
    ELSE ""

\* a finished evaluation of a formula with operator "none" and one argument
C12_NoneWithOneArgument ==
    IF calc.status = "done"
    THEN CalledFormula.operator = " " /\ Cardinality(CalledFormula.arguments) = 1
    ELSE FALSE

\* C12 as stated: with operator "none" and exactly one argument the final
\* result is that argument's evaluated value and the final unit is that
\* argument's unit (the unit set on it, else the unit of its source).
C12_NoneOperator ==
    C12_NoneWithOneArgument =>
      LET arg == Arguments(calc.call.id)[1]
      IN  /\ calc.outcome.final_result = C12_Value(arg)
          /\ calc.outcome.final_unit =
                (IF arg.unit # "" THEN arg.unit ELSE C12_SourceUnit(arg))

\* C12, amended: the final result is the argument's evaluated value, and the
\* final unit is the unit set on the argument, with a percent unit replaced
\* by the empty unit, else the unit of its source.
C12_NoneOperatorPercentEmpty ==
    C12_NoneWithOneArgument =>
      LET arg == Arguments(calc.call.id)[1]
      IN  /\ calc.outcome.final_result = C12_Value(arg)
          /\ Len(calc.outcome.calculation_steps) = 2
          /\ calc.outcome.final_unit =
                (IF arg.unit = "%" THEN ""
                 ELSE IF arg.unit # "" THEN arg.unit
                 ELSE C12_SourceUnit(arg))

\* operator "none" over the one argument "2 kWh"
C12_Witness ==
    /\ C12_NoneWithOneArgument
    /\ Arguments(calc.call.id)[1].unit = "kWh"
    /\ calc.outcome.final_result = RatInt(2)
    /\ calc.outcome.final_unit = "kWh"

\* the nested arguments evaluated so far by the call with these locals:
\* each stands for a finished evaluation of the referenced formula over the
\* period of the call, gives its final result as value, and has the unit set
\* on the argument or else the unit of the last step of that evaluation
C13_NestedResults(id, start_date, end_date, argument_results, steps) ==
    \A j \in 1..Len(argument_results) :
       LET arg == Arguments(id)[j]
           r == argument_results[j]
       IN  arg.nested_calc # None =>
             /\ r.source_type = "nested_calculation"
             /\ r.nested_result # None
             /\ LET n == Get(r.nested_result)
                IN  /\ n.consumption_calc = Get(arg.nested_calc)
                    /\ n.calculation_period_start = start_date
                    /\ n.calculation_period_end = end_date
                    /\ r.value = n.final_result
                    /\ steps[j].result = n.final_result
                    /\ steps[j].unit =
                          (IF arg.unit # "" /\ arg.unit # "%" THEN arg.unit
                           ELSE IF arg.unit = "%" THEN ""
                           ELSE n.calculation_steps[Len(n.calculation_steps)].unit)

\* C13: a nested argument is evaluated by calling calculate on the referenced
\* formula over exactly the period of the enclosing evaluation; its value is
\* the nested final result, and its unit is the one set on the argument or,
\* without one, the unit of the nested evaluation's final step.
C13_NestedSamePeriod ==
    /\ \A k \in 1..(IF calc.status = "running" THEN Len(calc.stack) ELSE 0) :
          LET fr == calc.stack[k]
          IN  /\ fr.start_date = calc.call.start_date
              /\ fr.end_date = calc.call.end_date
              /\ k > 1 =>
                   LET caller == calc.stack[k - 1]
                   IN  /\ caller.pc = "arguments"
                       /\ Arguments(caller.id)[Len(caller.values) + 1].nested_calc
                             = Some(fr.id)
              /\ C13_NestedResults(fr.id, fr.start_date, fr.end_date,
                                   fr.argument_results, fr.steps)
    /\ IF calc.status = "done"
       THEN C13_NestedResults(calc.call.id, calc.call.start_date,
                              calc.call.end_date, calc.outcome.argument_results,
                              calc.outcome.calculation_steps)
       ELSE TRUE

\* a finished evaluation with a nested argument without a unit, which took
\* "kWh" from the nested result, and one with the unit "m3" set
C13_Witness ==
    IF calc.status = "done"
    THEN \E j, k \in 1..Len(calc.outcome.argument_results) :
            /\ Arguments(calc.call.id)[j] = [position |-> j] @@ NestedArg(2, "")
            /\ calc.outcome.calculation_steps[j].unit = "kWh"
            /\ calc.outcome.argument_results[j].value = NestedValue
            /\ Arguments(calc.call.id)[k] = [position |-> k] @@ NestedArg(2, "m3")
            /\ calc.outcome.calculation_steps[k].unit = "m3"
    ELSE FALSE

\* the unit rule for '+' and '-': equal units stay, one empty side gives the
\* other unit, two different units give a composite label
C14_SumUnit(unit1, unit2) ==
    IF unit1 = unit2 THEN unit1
    ELSE IF unit2 = "" THEN unit1
    ELSE IF unit1 = "" THEN unit2
    ELSE unit1 \o "+" \o unit2

\* C14: in every combine step i of a '+' or '-' formula the step's unit comes
\* from the unit of the running result (the unit of step i-1, or of argument 0
\* for the first step) and the unit of argument i; so a sum of arguments
\* whose units are all u or empty, with at least one u, has final unit u.
C14_RunningUnit ==
    IF calc.status = "done"
    THEN LET f == CalledFormula
             steps == calc.outcome.calculation_steps
             n == Len(calc.outcome.argument_values)
             units == {steps[j].unit : j \in 1..n}
         IN  f.operator \in {"+", "-"} =>
               /\ Len(steps) = 2 * n
               /\ \A i \in 1..(n - 1) :
                     /\ steps[n + i].step_type = "operation"
                     /\ steps[n + i].unit =
                           C14_SumUnit(IF i = 1 THEN steps[1].unit
                                       ELSE steps[n + i - 1].unit,
                                       steps[i + 1].unit)
               /\ \A u \in units \ {""} :
                     units \subseteq {u, ""} => calc.outcome.final_unit = u
    ELSE TRUE

\* ------------------------------------------- unit combination alone
\* ConsumptionCalc.Unit
Units == {"", "kWh", "m3", "Liter", "m2", "%"}

\* a caller combines two units under an operator
CombineUnitsCall(unit1, unit2, operator) ==
    /\ result' = [op |-> "_combine_units", unit1 |-> unit1, unit2 |-> unit2,
                  operator |-> operator,
                  r |-> CombineUnits(unit1, unit2, operator)]
    /\ UNCHANGED <<meters, readings, formulas, calc, apartments, renters,
                 cost_centers, contributions, bill_objects,
                 account_periods>>

InitUnits ==
    /\ meters = {}
    /\ readings = {}
    /\ result = NoResult
    /\ bill_objects = {}
    /\ account_periods = {}
    /\ formulas = <<>>
    /\ calc = NoCalc
    /\ apartments = {}
    /\ renters = {}
    /\ cost_centers = {}
    /\ contributions = {}

NextUnits ==
    \E unit1 \in Units, unit2 \in Units, operator \in Operators :
       CombineUnitsCall(unit1, unit2, operator)

SpecUnits == InitUnits /\ [][NextUnits]_vars

\* C15: for '/', a dimensionless divisor (empty or percent) gives unit1,
\* identical non-empty units give the empty unit, and every other pair gives
\* the label "unit1/unit2".
C15_DivisionUnit ==
    (result.op = "_combine_units" /\ result.operator = "/") =>
       result.r =
          (IF result.unit2 \in {"", "%"} THEN result.unit1
           ELSE IF result.unit1 = result.unit2 THEN ""
           ELSE result.unit1 \o "/" \o result.unit2)

\* ------------------------------------------- tenancy splitting (4.4, step 1)
RentDays == 0..MaxRentDay

\* Renter.save: contract dates left empty take the move-in / move-out date
RenterSave(row) ==
    [row EXCEPT
       !.contract_start_date = IF @ = None THEN Some(row.move_in_date) ELSE @,
       !.contract_end_date = IF @ = None THEN row.move_out_date ELSE @]

\* the two date filters of get_renters_for_period
RentersOverlapping(rs, apartment, start_date, end_date, use_contract_dates) ==
    IF use_contract_dates
    THEN {r \in rs :
            /\ r.apartment = apartment
            /\ IF r.contract_start_date # None
               THEN Get(r.contract_start_date) <= end_date
               ELSE r.move_in_date <= end_date
            /\ IF r.contract_end_date = None THEN TRUE
               ELSE Get(r.contract_end_date) >= start_date}
    ELSE {r \in rs :
            /\ r.apartment = apartment
            /\ r.move_in_date <= end_date
            /\ IF r.move_out_date = None THEN TRUE
               ELSE Get(r.move_out_date) >= start_date}

\* renter.contract_start_date or renter.move_in_date / renter.move_in_date
RenterPeriodStart(r, use_contract_dates) ==
    IF use_contract_dates /\ r.contract_start_date # None
    THEN Get(r.contract_start_date)
    ELSE r.move_in_date

\* renter.contract_end_date or renter.move_out_date / renter.move_out_date
RenterPeriodEnd(r, use_contract_dates) ==
    IF use_contract_dates /\ r.contract_end_date # None
    THEN r.contract_end_date
    ELSE r.move_out_date

\* the sort key of order_by('contract_start_date', 'move_in_date') or
\* order_by('move_in_date'); save() leaves no row without contract start, and
\* rows with equal keys come in id order
RenterBefore(a, b, use_contract_dates) ==
    LET ka == IF use_contract_dates
              THEN <<RenterPeriodStart(a, TRUE), a.move_in_date, a.id>>
              ELSE <<a.move_in_date, a.move_in_date, a.id>>
        kb == IF use_contract_dates
              THEN <<RenterPeriodStart(b, TRUE), b.move_in_date, b.id>>
              ELSE <<b.move_in_date, b.move_in_date, b.id>>
    IN  \/ ka[1] < kb[1]
        \/ ka[1] = kb[1] /\ ka[2] < kb[2]
        \/ ka[1] = kb[1] /\ ka[2] = kb[2] /\ ka[3] <= kb[3]

RECURSIVE OrderRenters(_, _)
OrderRenters(rs, use_contract_dates) ==
    IF rs = {} THEN <<>>
    ELSE LET first == CHOOSE a \in rs :
                         \A b \in rs : RenterBefore(a, b, use_contract_dates)
         IN  <<first>> \o OrderRenters(rs \ {first}, use_contract_dates)

\* one entry of the returned list
RenterPeriod(start_date, end_date, renter_id) ==
    [start_date |-> start_date, end_date |-> end_date, renter_id |-> renter_id]

RECURSIVE RentersLoop(_, _, _, _, _, _, _)
\* the loop over the renters from index k on, with the list built so far and
\* current_date, and the gap at the end
RentersLoop(ordered, k, start_date, end_date, use_contract_dates, periods, current_date) ==
    IF k > Len(ordered)
    THEN IF current_date < end_date
         THEN Append(periods, RenterPeriod(current_date, end_date, None))
         ELSE periods
    ELSE LET renter == ordered[k]
             renter_period_end == RenterPeriodEnd(renter, use_contract_dates)
             renter_start ==
                 Max2(RenterPeriodStart(renter, use_contract_dates), start_date)
             renter_end ==
                 IF renter_period_end # None
                 THEN Min2(Get(renter_period_end), end_date)
                 ELSE end_date
             with_gap ==
                 IF current_date < renter_start
                 THEN Append(periods,
                             RenterPeriod(current_date, renter_start, None))
                 ELSE periods
         IN  IF renter_start <= renter_end
             THEN RentersLoop(ordered, k + 1, start_date, end_date,
                      use_contract_dates,
                      Append(with_gap, RenterPeriod(renter_start, renter_end,
                                                    Some(renter.id))),
                      renter_end)
             ELSE RentersLoop(ordered, k + 1, start_date, end_date,
                      use_contract_dates, with_gap, current_date)

\* Apartment.get_renters_for_period
GetRentersForPeriod(rs, apartment, start_date, end_date, use_contract_dates) ==
    RentersLoop(OrderRenters(RentersOverlapping(rs, apartment, start_date,
                                 end_date, use_contract_dates),
                             use_contract_dates),
                1, start_date, end_date, use_contract_dates, <<>>, start_date)

\* Admin "add" form of a Renter of apartment 1; early_contract dates the
\* contract one day before the move-in
AdminAddRenter(move_in_date, move_out_date, early_contract) ==
    /\ Cardinality(renters) < MaxRenters
    /\ renters' = renters \cup
          {RenterSave([id |-> Cardinality(renters) + 1, apartment |-> 1,
                       move_in_date |-> move_in_date,
                       move_out_date |-> move_out_date,
                       contract_start_date |->
                           IF early_contract THEN Some(move_in_date - 1)
                           ELSE None,
                       contract_end_date |-> None])}
    /\ result' = NoResult
    /\ UNCHANGED <<meters, readings, formulas, calc, apartments,
                   cost_centers, contributions, bill_objects,
                   account_periods>>

\* a strategy asks for the sub-intervals of apartment 1 over a period
RentersForPeriod(start_date, end_date, use_contract_dates) ==
    /\ result' = [op |-> "get_renters_for_period", start_date |-> start_date,
                  end_date |-> end_date,
                  use_contract_dates |-> use_contract_dates,
                  r |-> GetRentersForPeriod(renters, 1, start_date, end_date,
                                            use_contract_dates)]
    /\ UNCHANGED <<meters, readings, formulas, calc, apartments, renters,
                   cost_centers, contributions, bill_objects,
                   account_periods>>

InitRenters ==
    /\ meters = {}
    /\ readings = {}
    /\ result = NoResult
    /\ bill_objects = {}
    /\ account_periods = {}
    /\ formulas = <<>>
    /\ calc = NoCalc
    /\ apartments = {[id |-> 1, size_in_m2 |-> 1]}
    /\ renters = {}
    /\ cost_centers = {}
    /\ contributions = {}

\* tenancies are intervals: nobody moves out before moving in; the strategies
\* call with start_date < end_date
NextRenters ==
    \/ \E move_in_date \in RentDays,
          move_out_date \in {None} \cup {Some(d) : d \in RentDays},
          early_contract \in BOOLEAN :
          /\ move_out_date # None => move_in_date <= Get(move_out_date)
          /\ early_contract => move_in_date > 0
          /\ AdminAddRenter(move_in_date, move_out_date, early_contract)
    \/ \E start_date \in RentDays, end_date \in RentDays,
          use_contract_dates \in BOOLEAN :
          /\ start_date < end_date
          /\ RentersForPeriod(start_date, end_date, use_contract_dates)

SpecRenters == InitRenters /\ [][NextRenters]_vars

\* ------------------------------------------- tenancy splitting: claims
Split == result.op = "get_renters_for_period"

RECURSIVE SumPeriodDays(_, _)
SumPeriodDays(periods, n) ==
    IF n = 0 THEN 0
    ELSE SumPeriodDays(periods, n - 1)
         + (periods[n].end_date - periods[n].start_date)

\* day d .. d+1 lies inside a tenancy of apartment 1, by the dates in use
DayCovered(d, use_contract_dates) ==
    \E r \in renters :
       /\ r.apartment = 1
       /\ RenterPeriodStart(r, use_contract_dates) <= d
       /\ LET e == RenterPeriodEnd(r, use_contract_dates)
          IN  IF e = None THEN TRUE ELSE d + 1 <= Get(e)

\* C16: for any set of tenancies the returned sub-intervals are a gapless
\* partition of start .. end: in date order, from start to end, each ending
\* where the next begins, every uncovered gap present as a sub-interval
\* without renter, and the day counts adding up to end - start.
C16_GaplessPartition ==
    Split =>
      LET p == result.r
          n == Len(p)
      IN  /\ n >= 1
          /\ p[1].start_date = result.start_date
          /\ p[n].end_date = result.end_date
          /\ \A k \in 1..n : p[k].start_date <= p[k].end_date
          /\ \A k \in 1..(n - 1) : p[k].end_date = p[k + 1].start_date
          /\ \A d \in result.start_date..(result.end_date - 1) :
                ~DayCovered(d, result.use_contract_dates) =>
                   \E k \in 1..n : /\ p[k].renter_id = None
                                   /\ p[k].start_date <= d
                                   /\ d + 1 <= p[k].end_date
          /\ SumPeriodDays(p, n) = result.end_date - result.start_date

\* ------------------------------------------- calculate as one call
\* The strategies call ConsumptionCalc.calculate and use what it returns or
\* raises; here the whole call is one value, built from the same parts as the
\* step-wise evaluation above.
CalcError(kind, reason, raised_by, names, periods) ==
    [kind |-> kind, reason |-> reason, raised_by |-> raised_by,
     names |-> names, periods |-> periods]

RECURSIVE CombineLoop(_, _, _, _, _, _)
\* the combine loop from pass i on: the final result and the unit of the
\* last step, or the ValueError of _apply_operator
CombineLoop(id, values, units, i, running, last_unit) ==
    IF i >= Len(values)
    THEN [kind |-> "ok", final_result |-> running, final_unit |-> last_unit]
    ELSE LET applied == ApplyOperator(running, formulas[id].operator,
                                      values[i + 1])
         IN  IF applied.kind # "ok"
             THEN CalcError("ValueError", applied.reason, id, {}, {})
             ELSE CombineLoop(id, values, units, i + 1, applied.value,
                      CombineUnits(units[i], units[i + 1],
                                   formulas[id].operator))

RECURSIVE Calculate(_, _, _, _)
RECURSIVE ArgumentLoop(_, _, _, _, _, _, _)
\* the "except ValueError" around one argument: the message gains the name of
\* the formula and the period; other exceptions pass
ArgumentError(id, start_date, end_date, err) ==
    IF err.kind = "ValueError"
    THEN [err EXCEPT !.names = @ \cup {id},
                     !.periods = @ \cup {<<start_date, end_date>>}]
    ELSE err

\* a nested argument after the nested call
NestedArgument(id, start_date, end_date, depth, k, values, units, arg, nested_result) ==
    IF nested_result.kind # "ok"
    THEN ArgumentError(id, start_date, end_date, nested_result)
    ELSE ArgumentLoop(id, start_date, end_date, depth, k + 1,
             Append(values, nested_result.final_result),
             Append(units, GetUnitFromArgObject(arg, "nested_calculation",
                                                nested_result.final_unit)))

\* a meter place argument after calculate_billing
MeterPlaceArgument(id, start_date, end_date, depth, k, values, units, arg, billing_calculation) ==
    IF billing_calculation.kind # "ok"
    THEN ArgumentError(id, start_date, end_date,
                       CalcError(billing_calculation.kind, "billing", id, {},
                                 {}))
    ELSE ArgumentLoop(id, start_date, end_date, depth, k + 1,
             Append(values, billing_calculation.total_consumption),
             Append(units, GetUnitFromArgObject(arg, "meter_place",
                               MeterPlaceUnit(Get(arg.meter_place)))))

\* _calculate_single_argument for argument k and what the loop does with it
Argument(id, start_date, end_date, depth, k, values, units, arg) ==
    IF arg.nested_calc # None
    THEN IF depth = 0
         THEN CalcError("RecursionError", "nesting too deep", id, {}, {})
         ELSE NestedArgument(id, start_date, end_date, depth, k, values, units,
                  arg,
                  Calculate(Get(arg.nested_calc), start_date, end_date,
                            depth - 1))
    ELSE IF arg.meter_place # None
    THEN MeterPlaceArgument(id, start_date, end_date, depth, k, values, units,
             arg,
             CalculateBilling(meters, readings, Get(arg.meter_place),
                              start_date, end_date))
    ELSE IF arg.value # None
    THEN ArgumentLoop(id, start_date, end_date, depth, k + 1,
             Append(values,
                    IF arg.unit = "%" THEN Rat(Get(arg.value), 100)
                    ELSE RatInt(Get(arg.value))),
             Append(units, GetUnitFromArgObject(arg, "value", "")))
    ELSE ArgumentError(id, start_date, end_date,
             CalcError("ValueError", "argument without source", id, {}, {}))

\* the argument loop from argument k on, with the values and units so far;
\* depth bounds the nesting of calls
ArgumentLoop(id, start_date, end_date, depth, k, values, units) ==
    IF k > Len(Arguments(id))
    THEN CombineLoop(id, values, units, 1, values[1], units[Len(units)])
    ELSE Argument(id, start_date, end_date, depth, k, values, units,
                  Arguments(id)[k])

\* ConsumptionCalc.calculate
Calculate(id, start_date, end_date, depth) ==
    LET f == formulas[id]
    IN  IF start_date >= end_date
        THEN CalcError("ValueError", "start not before end", id, {}, {})
        ELSE IF start_date < f.start_date
        THEN CalcError("ValueError", "start before start_date", id, {id}, {})
        ELSE IF f.end_date # None /\ end_date > Get(f.end_date)
        THEN CalcError("ValueError", "end after end_date", id, {id}, {})
        ELSE IF f.arguments = {}
        THEN CalcError("ValueError", "no arguments", id, {id}, {})
        ELSE ArgumentLoop(id, start_date, end_date, depth, 1, <<>>, <<>>)

\* ------------------------------------------- cost distribution (4.4)
ContributionsOf(cost_center) ==
    {c \in contributions : c.cost_center = cost_center}

RECURSIVE OrderById(_)
\* a queryset without order_by, read in id order
OrderById(rows) ==
    IF rows = {} THEN <<>>
    ELSE LET first == CHOOSE a \in rows : \A b \in rows : a.id <= b.id
         IN  <<first>> \o OrderById(rows \ {first})

ApartmentById(id) == CHOOSE a \in apartments : a.id = id

\* one entry of temp_results; area_days is 0 where the strategy has none
TempResult(contribution, final_consumption, renter_id, period_start, period_end, area_days, unit) ==
    [contribution |-> contribution.id, final_consumption |-> final_consumption,
     renter_id |-> renter_id, period_start |-> period_start,
     period_end |-> period_end, area_days |-> area_days, unit |-> unit]

\* the ValueError a strategy raises: contribution, apartment and
\* consumption_calc are what its message names, cause is the exception it was
\* raised from, found the renters or vacancy windows it lists
ContributionError(strategy, reason, contribution, apartment, consumption_calc, cause, found) ==
    [kind |-> "ValueError", strategy |-> strategy, reason |-> reason,
     contribution |-> contribution, apartment |-> apartment,
     consumption_calc |-> consumption_calc, cause |-> cause, found |-> found]

\* the single sub-interval of a contribution without apartment
WholePeriod(start_date, end_date) ==
    <<RenterPeriod(start_date, end_date, None)>>

\* a variant that gives every sub-interval the days of the whole period
TimeContributionWholePeriod(rs, contribution, start_date, end_date) ==
    LET periods ==
            IF contribution.apartment # None
            THEN GetRentersForPeriod(rs, Get(contribution.apartment),
                                     start_date, end_date, TRUE)
            ELSE WholePeriod(start_date, end_date)
    IN  [kind |-> "ok",
         temp_results |->
            [k \in 1..Len(periods) |->
                TempResult(contribution, RatInt(end_date - start_date),
                    periods[k].renter_id, periods[k].start_date,
                    periods[k].end_date, RatInt(0), "Tage")]]

\* _calculate_time_based, the body of the loop over the contributions, with
\* the Renter table rs
TimeContribution(rs, contribution, start_date, end_date) ==
    LET periods ==
            IF contribution.apartment # None
            THEN GetRentersForPeriod(rs, Get(contribution.apartment),
                                     start_date, end_date, TRUE)
            ELSE WholePeriod(start_date, end_date)
    IN  [kind |-> "ok",
         temp_results |->
            [k \in 1..Len(periods) |->
                TempResult(contribution,
                    RatInt(periods[k].end_date - periods[k].start_date),
                    periods[k].renter_id, periods[k].start_date,
                    periods[k].end_date, RatInt(0), "Tage")]]

\* _calculate_area_based, the body of the loop over the contributions;
\* "size_in_m2 or Decimal('0')" is size_in_m2 for a field that is never null
AreaContribution(rs, contribution, start_date, end_date) ==
    IF contribution.apartment = None
    THEN ContributionError("AREA", "requires an apartment with size_in_m2",
                           Some(contribution.id), contribution.apartment, None,
                           None, {})
    ELSE LET apartment_area ==
                 ApartmentById(Get(contribution.apartment)).size_in_m2
             periods ==
                 GetRentersForPeriod(rs, Get(contribution.apartment),
                                     start_date, end_date, FALSE)
         IN  [kind |-> "ok",
              temp_results |->
                 [k \in 1..Len(periods) |->
                     TempResult(contribution,
                         RatInt(apartment_area *
                                (periods[k].end_date - periods[k].start_date)),
                         periods[k].renter_id, periods[k].start_date,
                         periods[k].end_date, RatInt(0), "m2xTage")]]

RECURSIVE FormulaPeriods(_, _, _, _, _, _)
\* the end of the body of the loop over the sub-intervals: the error of
\* calculate wrapped, or one more entry of temp_results
FormulaResult(strategy, contribution, apartment_area, periods, k, temp_results, adjusted_start, adjusted_end, consumption_result) ==
    IF consumption_result.kind # "ok"
    THEN ContributionError(strategy, "calculate failed", Some(contribution.id),
                           contribution.apartment,
                           contribution.consumption_calc,
                           Some(consumption_result), {})
    ELSE FormulaPeriods(strategy, contribution, apartment_area, periods, k + 1,
             Append(temp_results,
                    TempResult(contribution, consumption_result.final_result,
                               periods[k].renter_id, adjusted_start,
                               adjusted_end,
                               RatInt(apartment_area *
                                      (adjusted_end - adjusted_start)),
                               consumption_result.final_unit)))

\* the body of the loop over the sub-intervals with the clipped window: a
\* sub-interval without overlap is skipped, the others are evaluated
FormulaPeriod(strategy, contribution, apartment_area, periods, k, temp_results, calc_start, calc_end, adjusted_start, adjusted_end) ==
    IF \/ periods[k].end_date <= calc_start
       \/ IF calc_end = None THEN FALSE
          ELSE periods[k].start_date >= Get(calc_end)
       \/ adjusted_start >= adjusted_end
    THEN FormulaPeriods(strategy, contribution, apartment_area, periods, k + 1,
                        temp_results)
    ELSE FormulaResult(strategy, contribution, apartment_area, periods, k,
             temp_results, adjusted_start, adjusted_end,
             Calculate(Get(contribution.consumption_calc), adjusted_start,
                       adjusted_end, MaxDepth - 1))

\* a variant that evaluates the formula over the sub-interval as it is
FormulaPeriodsUnclipped(strategy, contribution, apartment_area, periods, k, temp_results) ==
    IF k > Len(periods) THEN [kind |-> "ok", temp_results |-> temp_results]
    ELSE FormulaPeriod(strategy, contribution, apartment_area, periods, k,
             temp_results,
             formulas[Get(contribution.consumption_calc)].start_date,
             formulas[Get(contribution.consumption_calc)].end_date,
             periods[k].start_date, periods[k].end_date)

\* the loop over the sub-intervals of one contribution in
\* _calculate_consumption_based and _calculate_heating_mixed from
\* sub-interval k on: each one is clipped to the validity window of the
\* formula; apartment_area is 0 where no area share is computed
FormulaPeriods(strategy, contribution, apartment_area, periods, k, temp_results) ==
    IF k > Len(periods) THEN [kind |-> "ok", temp_results |-> temp_results]
    ELSE FormulaPeriod(strategy, contribution, apartment_area, periods, k,
             temp_results,
             formulas[Get(contribution.consumption_calc)].start_date,
             formulas[Get(contribution.consumption_calc)].end_date,
             Max2(periods[k].start_date,
                  formulas[Get(contribution.consumption_calc)].start_date),
             IF formulas[Get(contribution.consumption_calc)].end_date # None
             THEN Min2(periods[k].end_date,
                       Get(formulas[Get(contribution.consumption_calc)].end_date))
             ELSE periods[k].end_date)

\* _calculate_consumption_based, the body of the loop over the contributions
ConsumptionContribution(rs, contribution, start_date, end_date) ==
    IF contribution.consumption_calc = None
    THEN ContributionError("CONSUMPTION", "consumption_calc is required",
                           Some(contribution.id), contribution.apartment, None,
                           None, {})
    ELSE FormulaPeriods("CONSUMPTION", contribution, 0,
             IF contribution.apartment # None
             THEN GetRentersForPeriod(rs, Get(contribution.apartment),
                                      start_date, end_date, FALSE)
             ELSE WholePeriod(start_date, end_date),
             1, <<>>)

\* _calculate_heating_mixed, the body of the first loop over the contributions
HeatingContribution(rs, contribution, start_date, end_date) ==
    IF contribution.apartment = None
    THEN ContributionError("HEATING_MIXED",
                           "requires an apartment with size_in_m2",
                           Some(contribution.id), None,
                           contribution.consumption_calc, None, {})
    ELSE IF contribution.consumption_calc = None
    THEN ContributionError("HEATING_MIXED", "requires consumption_calc",
                           Some(contribution.id), contribution.apartment, None,
                           None, {})
    ELSE FormulaPeriods("HEATING_MIXED", contribution,
             ApartmentById(Get(contribution.apartment)).size_in_m2,
             GetRentersForPeriod(rs, Get(contribution.apartment),
                                 start_date, end_date, FALSE),
             1, <<>>)

\* a variant that takes the first renter of a window without looking for a
\* change of renter
DirectWindowFirstRenter(rs, contribution, window_start, window_end) ==
    LET periods == GetRentersForPeriod(rs, Get(contribution.apartment),
                                       window_start, window_end, TRUE)
        renter_periods ==
            SelectSeq(periods, LAMBDA q : q.renter_id # None)
    IN  IF Len(renter_periods) = 0
        THEN ContributionError("DIRECT", "no renter", None,
                               contribution.apartment, None, None, {})
        ELSE [kind |-> "ok", period |-> renter_periods[1]]

\* the checks of _calculate_direct on the sub-intervals of one window: the
\* error it raises, which names the apartment and lists the vacancy windows
\* or the renters found, or the one renter period
DirectChecks(contribution, vacancy_periods, renter_periods) ==
    IF Len(vacancy_periods) > 0
    THEN ContributionError("DIRECT", "vacancy", None, contribution.apartment,
             None, None,
             {<<vacancy_periods[k].start_date, vacancy_periods[k].end_date>> :
                 k \in 1..Len(vacancy_periods)})
    ELSE IF Len(renter_periods) = 0
    THEN ContributionError("DIRECT", "no renter", None, contribution.apartment,
                           None, None, {})
    ELSE IF Len(renter_periods) > 1
    THEN ContributionError("DIRECT", "renter change", None,
             contribution.apartment, None, None,
             {Get(renter_periods[k].renter_id) : k \in 1..Len(renter_periods)})
    ELSE [kind |-> "ok", period |-> renter_periods[1]]

\* vacancy_periods and renter_periods of a list of sub-intervals, checked
DirectPeriods(contribution, periods) ==
    DirectChecks(contribution,
                 SelectSeq(periods, LAMBDA q : q.renter_id = None),
                 SelectSeq(periods, LAMBDA q : q.renter_id # None))

\* the sub-intervals of one window by contract dates, checked
DirectWindow(rs, contribution, window_start, window_end) ==
    DirectPeriods(contribution,
                  GetRentersForPeriod(rs, Get(contribution.apartment),
                                      window_start, window_end, TRUE))

RECURSIVE DirectBills(_, _, _, _, _, _, _)
\* the body of the loop over the bills after the checks of bill k: the renter
\* is the first, or the one validated before, or another one
DirectBill(rs, contribution, bills, k, validated_renter_id, overall_start, overall_end, checked) ==
    IF checked.kind # "ok" THEN checked
    ELSE IF validated_renter_id = None
    THEN DirectBills(rs, contribution, bills, k + 1, checked.period.renter_id,
                     Some(bills[k].from_date), Some(bills[k].to_date))
    ELSE IF validated_renter_id # checked.period.renter_id
    THEN ContributionError("DIRECT", "different renters", None,
             contribution.apartment, None, None,
             {Get(validated_renter_id), Get(checked.period.renter_id)})
    ELSE DirectBills(rs, contribution, bills, k + 1, validated_renter_id,
             Some(Min2(Get(overall_start), bills[k].from_date)),
             Some(Max2(Get(overall_end), bills[k].to_date)))

\* the loop over the bills for one contribution from bill k on, with the
\* renter validated so far and the overall window; then the one entry of the
\* apartment
DirectBills(rs, contribution, bills, k, validated_renter_id, overall_start, overall_end) ==
    IF k > Len(bills)
    THEN [kind |-> "ok",
          temp_results |->
             <<TempResult(contribution, RatInt(1), validated_renter_id,
                          Get(overall_start), Get(overall_end), RatInt(0),
                          "Anteil")>>]
    ELSE DirectBill(rs, contribution, bills, k, validated_renter_id,
                    overall_start, overall_end,
                    DirectWindow(rs, contribution, bills[k].from_date,
                                 bills[k].to_date))

\* the fallback without bills after the checks of the period
DirectPeriod(contribution, checked) ==
    IF checked.kind # "ok" THEN checked
    ELSE [kind |-> "ok",
          temp_results |->
             <<TempResult(contribution, RatInt(1), checked.period.renter_id,
                          checked.period.start_date, checked.period.end_date,
                          RatInt(0), "Anteil")>>]

\* _calculate_direct, the body of the loop over the contributions
DirectContribution(rs, contribution, start_date, end_date, bills) ==
    IF contribution.apartment = None
    THEN ContributionError("DIRECT", "requires an apartment",
                           Some(contribution.id), None, None, None, {})
    ELSE IF Len(bills) > 0
    THEN DirectBills(rs, contribution, bills, 1, None, None, None)
    ELSE DirectPeriod(contribution,
                      DirectWindow(rs, contribution, start_date, end_date))

\* the body of the loop of the strategy chosen by distribution_type
StrategyContribution(distribution_type, rs, contribution, start_date, end_date, bills) ==
    CASE distribution_type = "CONSUMPTION" ->
            ConsumptionContribution(rs, contribution, start_date, end_date)
      [] distribution_type = "TIME" ->
            TimeContribution(rs, contribution, start_date, end_date)
      [] distribution_type = "AREA" ->
            AreaContribution(rs, contribution, start_date, end_date)
      [] distribution_type = "DIRECT" ->
            DirectContribution(rs, contribution, start_date, end_date, bills)
      [] distribution_type = "HEATING_MIXED" ->
            HeatingContribution(rs, contribution, start_date, end_date)

RECURSIVE ContributionsLoop(_, _, _, _, _, _, _, _)
\* a variant that skips a failing contribution and keeps the results so far
ContributionsNextBestEffort(distribution_type, rs, ordered, k, start_date, end_date, bills, temp_results, one) ==
    ContributionsLoop(distribution_type, rs, ordered, k + 1, start_date,
                      end_date, bills,
                      IF one.kind # "ok" THEN temp_results
                      ELSE temp_results \o one.temp_results)

\* the end of the body of the loop over the contributions: the first error
\* ends the call, otherwise temp_results grows
ContributionsNext(distribution_type, rs, ordered, k, start_date, end_date, bills, temp_results, one) ==
    IF one.kind # "ok" THEN one
    ELSE ContributionsLoop(distribution_type, rs, ordered, k + 1, start_date,
                           end_date, bills, temp_results \o one.temp_results)

\* "for contribution in contributions" from contribution k on
ContributionsLoop(distribution_type, rs, ordered, k, start_date, end_date, bills, temp_results) ==
    IF k > Len(ordered) THEN [kind |-> "ok", temp_results |-> temp_results]
    ELSE ContributionsNext(distribution_type, rs, ordered, k, start_date,
                           end_date, bills, temp_results,
                           StrategyContribution(distribution_type, rs,
                               ordered[k], start_date, end_date, bills))

RECURSIVE SumOf(_, _)
\* the running total of one key of temp_results
SumOf(temp_results, key) ==
    IF temp_results = <<>> THEN RatInt(0)
    ELSE RatAdd(Head(temp_results)[key], SumOf(Tail(temp_results), key))

\* value / total * 100 if the total is not zero, else 0
PercentOf(value, total) ==
    IF RatIsZero(total) THEN RatInt(0)
    ELSE RatMul(RatDiv(value, total), RatInt(100))

\* value / total * 100 if the total is greater than zero, else 0
PercentOfPositive(value, total) ==
    IF total[1] > 0 THEN RatMul(RatDiv(value, total), RatInt(100))
    ELSE RatInt(0)

\* one ContributionResult
ContributionResult(temp_result, percentage, area_share, area_percentage_value, consumption_share, consumption_percentage_value) ==
    [contribution |-> temp_result.contribution,
     final_consumption |-> temp_result.final_consumption,
     percentage |-> percentage,
     renter_id |-> temp_result.renter_id,
     period_start |-> temp_result.period_start,
     period_end |-> temp_result.period_end,
     area_share |-> area_share,
     area_percentage_value |-> area_percentage_value,
     consumption_share |-> consumption_share,
     consumption_percentage_value |-> consumption_percentage_value]

\* the second loop of the consumption, time, area and direct strategies
ShareResults(temp_results) ==
    LET total_consumption == SumOf(temp_results, "final_consumption")
    IN  [k \in 1..Len(temp_results) |->
            ContributionResult(temp_results[k],
                PercentOf(temp_results[k].final_consumption, total_consumption),
                RatInt(0), RatInt(0), RatInt(0), RatInt(0))]

\* a variant that takes the area share against the consumption total
HeatingResultsOneTotal(cost_center, temp_results) ==
    LET total_consumption_value == SumOf(temp_results, "final_consumption")
        area_weight == Rat(cost_center.area_percentage, 100)
        consumption_weight == Rat(cost_center.consumption_percentage, 100)
    IN  [k \in 1..Len(temp_results) |->
            LET area_pct == PercentOfPositive(temp_results[k].area_days,
                                              total_consumption_value)
                consumption_pct ==
                    PercentOfPositive(temp_results[k].final_consumption,
                                      total_consumption_value)
            IN  ContributionResult(temp_results[k],
                    RatAdd(RatMul(area_pct, area_weight),
                           RatMul(consumption_pct, consumption_weight)),
                    temp_results[k].area_days, area_pct,
                    temp_results[k].final_consumption, consumption_pct)]

\* the second loop of _calculate_heating_mixed
HeatingResults(cost_center, temp_results) ==
    LET total_consumption_value == SumOf(temp_results, "final_consumption")
        total_area_days == SumOf(temp_results, "area_days")
        area_weight == Rat(cost_center.area_percentage, 100)
        consumption_weight == Rat(cost_center.consumption_percentage, 100)
    IN  [k \in 1..Len(temp_results) |->
            LET area_pct == PercentOfPositive(temp_results[k].area_days,
                                              total_area_days)
                consumption_pct ==
                    PercentOfPositive(temp_results[k].final_consumption,
                                      total_consumption_value)
            IN  ContributionResult(temp_results[k],
                    RatAdd(RatMul(area_pct, area_weight),
                           RatMul(consumption_pct, consumption_weight)),
                    temp_results[k].area_days, area_pct,
                    temp_results[k].final_consumption, consumption_pct)]

\* total_consumption_unit: fixed by the strategy, or the unit of the first
\* evaluated result that has one
TotalConsumptionUnit(distribution_type, temp_results) ==
    LET with_unit == SelectSeq(temp_results, LAMBDA t : t.unit # "")
    IN  CASE distribution_type = "TIME" -> "Tage"
          [] distribution_type = "AREA" -> "m2xTage"
          [] distribution_type = "DIRECT" -> "Anteil"
          [] OTHER -> IF with_unit = <<>> THEN "" ELSE with_unit[1].unit

\* get_display_name of the contributions in temp_results: the apartment or
\* the special designation
ApartmentNames(cost_center, temp_results) ==
    {IF c.apartment # None THEN <<"apartment", Get(c.apartment)>>
     ELSE <<"special", c.special_designation>> :
        c \in {c \in ContributionsOf(cost_center.id) :
                 \E k \in 1..Len(temp_results) :
                    temp_results[k].contribution = c.id}}

CostCenterCalculation(cost_center, start_date, end_date, contribution_results, total_consumption, apartment_count, total_consumption_unit) ==
    [kind |-> "ok", cost_center |-> cost_center.id,
     calculation_period_start |-> start_date,
     calculation_period_end |-> end_date,
     contribution_results |-> contribution_results,
     total_consumption |-> total_consumption,
     apartment_count |-> apartment_count,
     total_consumption_unit |-> total_consumption_unit]

\* a variant that reports the area total as the total of the call
StrategyReturnAreaTotal(cost_center, start_date, end_date, looped) ==
    IF looped.kind # "ok" THEN looped
    ELSE CostCenterCalculation(cost_center, start_date, end_date,
             IF cost_center.distribution_type = "HEATING_MIXED"
             THEN HeatingResults(cost_center, looped.temp_results)
             ELSE ShareResults(looped.temp_results),
             SumOf(looped.temp_results, "area_days"),
             Cardinality(ApartmentNames(cost_center, looped.temp_results)),
             TotalConsumptionUnit(cost_center.distribution_type,
                                  looped.temp_results))

\* the second loop and the return of a strategy, after its loop over the
\* contributions
StrategyReturn(cost_center, start_date, end_date, looped) ==
    IF looped.kind # "ok" THEN looped
    ELSE CostCenterCalculation(cost_center, start_date, end_date,
             IF cost_center.distribution_type = "HEATING_MIXED"
             THEN HeatingResults(cost_center, looped.temp_results)
             ELSE ShareResults(looped.temp_results),
             SumOf(looped.temp_results, "final_consumption"),
             Cardinality(ApartmentNames(cost_center, looped.temp_results)),
             TotalConsumptionUnit(cost_center.distribution_type,
                                  looped.temp_results))

\* CostCenter.calculate_total_consumption with the Renter table rs
CalculateTotalConsumption(rs, cost_center, start_date, end_date, bills) ==
    IF start_date >= end_date
    THEN [kind |-> "ValueError", strategy |-> "", contribution |-> None,
          reason |-> "start not before end", apartment |-> None,
          consumption_calc |-> None, cause |-> None, found |-> {}]
    ELSE IF ContributionsOf(cost_center.id) = {}
    THEN CostCenterCalculation(cost_center, start_date, end_date, <<>>,
                               RatInt(0), 0, "")
    ELSE StrategyReturn(cost_center, start_date, end_date,
             ContributionsLoop(cost_center.distribution_type, rs,
                 OrderById(ContributionsOf(cost_center.id)), 1, start_date,
                 end_date, bills, <<>>))

\* ------------------------------------------- cost distribution: the calls
\* a caller asks for the distribution of a cost center; the call reads the
\* tables and writes none, so a behaviour follows one call
CostCenterCall(cost_center, start_date, end_date, bills) ==
    /\ result = NoResult
    /\ result' = [op |-> "calculate_total_consumption",
                  cost_center |-> cost_center.id,
                  distribution_type |-> cost_center.distribution_type,
                  start_date |-> start_date, end_date |-> end_date,
                  bills |-> bills,
                  r |-> CalculateTotalConsumption(renters, cost_center,
                            start_date, end_date, bills)]
    /\ UNCHANGED <<meters, readings, formulas, calc, apartments, renters,
                   cost_centers, contributions, bill_objects,
                   account_periods>>

DistributionTypes == {"CONSUMPTION", "TIME", "AREA", "DIRECT", "HEATING_MIXED"}

\* area_percentage and consumption_percentage that pass CostCenter.clean
Weights == {<<30, 70>>, <<50, 50>>}

Areas == 0..MaxArea

\* a Renter row as saved, without separate contract dates
Tenant(id, apartment, move_in_date, move_out_date) ==
    RenterSave([id |-> id, apartment |-> apartment,
                move_in_date |-> move_in_date, move_out_date |-> move_out_date,
                contract_start_date |-> None, contract_end_date |-> None])

\* occupancy of apartment 1: empty, one tenant throughout, a vacancy then a
\* tenant, a tenant then a vacancy, a change of tenant on day 1, a change of
\* tenant with the last day but one empty, two tenants at once
Occupancies ==
    {{}, {Tenant(1, 1, 0, None)}, {Tenant(1, 1, 1, None)},
     {Tenant(1, 1, 0, Some(MaxRentDay - 1))},
     {Tenant(1, 1, 0, Some(1)), Tenant(2, 1, 1, None)},
     {Tenant(1, 1, 0, Some(MaxRentDay - 2)),
      Tenant(2, 1, MaxRentDay - 1, None)},
     {Tenant(1, 1, 0, None), Tenant(2, 1, 0, None)}}

\* occupancy of apartment 2: one tenant throughout, or empty
OtherOccupancies == {{Tenant(3, 2, 0, None)}, {}}

Contribution(id, apartment, special_designation, consumption_calc) ==
    [id |-> id, cost_center |-> 1, apartment |-> apartment,
     special_designation |-> special_designation,
     consumption_calc |-> consumption_calc]

\* the contributions of cost center 1: none, apartment 1, both apartments,
\* apartment 1 and a special designation; with_calc gives each its formula
ContributionSets(with_calc) ==
    LET f(id) == IF with_calc THEN Some(id) ELSE None
    IN  {{}, {Contribution(1, Some(1), "", f(1))},
         {Contribution(1, Some(1), "", f(1)),
          Contribution(2, Some(2), "", f(2))},
         {Contribution(1, Some(1), "", f(1)),
          Contribution(2, None, "Waschkeller", f(2))}}

\* formula 1, of contribution 1: a fixed consumption of 2 kWh, the meter of
\* place 1, 2 kWh valid from day 1 on, 2 kWh valid from day 1 to the last day
\* but one, 0 - 2 kWh, nothing, 2 kWh / 0
CostFormulas ==
    {ConsumptionCalcRow(1, " ", 0, None, <<ValueArg(2, "kWh")>>),
     ConsumptionCalcRow(1, " ", 0, None, <<MeterPlaceArg(1, "")>>),
     ConsumptionCalcRow(1, " ", 1, None, <<ValueArg(2, "kWh")>>),
     ConsumptionCalcRow(1, " ", 1, Some(MaxRentDay - 1), <<ValueArg(2, "kWh")>>),
     ConsumptionCalcRow(1, "-", 0, None, <<ValueArg(0, ""), ValueArg(2, "kWh")>>),
     ConsumptionCalcRow(1, " ", 0, None, <<ValueArg(0, "")>>),
     ConsumptionCalcRow(1, "/", 0, None, <<ValueArg(2, "kWh"), ValueArg(0, "")>>)}

\* formula 2, of contribution 2: a fixed consumption of 1 kWh
OtherFormula ==
    ConsumptionCalcRow(2, " ", 0, None, <<ValueArg(1, "kWh")>>)

Bill(from_date, to_date) == [from_date |-> from_date, to_date |-> to_date]

\* the bills of the cost center handed to the call: none, one over all days,
\* two that meet on day 1, one for the first and one for the last day
BillLists ==
    {<<>>, <<Bill(0, MaxRentDay)>>, <<Bill(0, 1), Bill(1, MaxRentDay)>>,
     <<Bill(0, 1), Bill(MaxRentDay - 1, MaxRentDay)>>}

\* the strategies that evaluate the formulas of the contributions
FormulaTypes == {"CONSUMPTION", "HEATING_MIXED"}

InitCost ==
    /\ meters = CalcFleet
    /\ readings = CalcReadings
    /\ result = NoResult
    /\ bill_objects = {}
    /\ account_periods = {}
    /\ calc = NoCalc
    /\ \E area \in Areas :
          apartments = {[id |-> 1, size_in_m2 |-> area],
                        [id |-> 2, size_in_m2 |-> 1]}
    /\ \E o \in Occupancies, other \in OtherOccupancies :
          renters = o \cup other
    /\ \E distribution_type \in DistributionTypes, w \in Weights,
          with_calc \in BOOLEAN, f \in CostFormulas :
          /\ distribution_type # "HEATING_MIXED" => w = <<30, 70>>
          /\ distribution_type \notin FormulaTypes =>
                with_calc /\ f = ConsumptionCalcRow(1, " ", 0, None,
                                                    <<ValueArg(2, "kWh")>>)
          /\ cost_centers = {[id |-> 1, distribution_type |-> distribution_type,
                              area_percentage |-> w[1],
                              consumption_percentage |-> w[2]]}
          /\ formulas = (1 :> f) @@ (2 :> OtherFormula)
          /\ contributions \in ContributionSets(with_calc)

NextCost ==
    \E cost_center \in cost_centers, start_date \in RentDays,
       end_date \in RentDays, bills \in BillLists :
       CostCenterCall(cost_center, start_date, end_date, bills)

SpecCost == InitCost /\ [][NextCost]_vars

\* ------------------------------------------- period aggregation
\* a Bill row; value in euros with two decimal places
BillRow(id, cost_center, account_period, bill_date, value, from_date, to_date) ==
    [id |-> id, cost_center |-> cost_center, account_period |-> account_period,
     bill_date |-> bill_date, value |-> value, from_date |-> from_date,
     to_date |-> to_date]

\* Bill.objects.filter(account_period=self)
BillsOf(account_period) ==
    {b \in bill_objects : b.account_period = account_period.id}

CostCenterById(id) == CHOOSE c \in cost_centers : c.id = id

RECURSIVE OrderByBillDate(_)
\* order_by bill_date within one cost center; equal dates in id order
OrderByBillDate(rows) ==
    IF rows = {} THEN <<>>
    ELSE LET first == CHOOSE a \in rows : \A b \in rows :
                         \/ a.bill_date < b.bill_date
                         \/ a.bill_date = b.bill_date /\ a.id <= b.id
         IN  <<first>> \o OrderByBillDate(rows \ {first})

RECURSIVE OrderByText(_)
\* rows in the order of their text, which a number stands for; equal texts in
\* id order
OrderByText(rows) ==
    IF rows = {} THEN <<>>
    ELSE LET first == CHOOSE a \in rows : \A b \in rows :
                         \/ a.text < b.text
                         \/ a.text = b.text /\ a.id <= b.id
         IN  <<first>> \o OrderByText(rows \ {first})

\* cost_center_groups: the cost centers of the bills, as the ordered bills
\* insert them, and the bills of one of them
CostCenterGroups(account_period) ==
    OrderByText({CostCenterById(b.cost_center) : b \in BillsOf(account_period)})

CostCenterBills(account_period, cost_center) ==
    OrderByBillDate({b \in BillsOf(account_period) :
                        b.cost_center = cost_center.id})

RECURSIVE SumValue(_)
SumValue(cost_center_bills) ==
    IF cost_center_bills = <<>> THEN RatInt(0)
    ELSE RatAdd(Head(cost_center_bills).value, SumValue(Tail(cost_center_bills)))

\* the try around calculate_total_consumption: any exception is logged and
\* leaves None
TryCalculation(outcome) ==
    IF outcome.kind = "ok" THEN Some(outcome) ELSE None

CostCenterSummary(cost_center, cost_center_bills, cost_center_calculation) ==
    [cost_center |-> cost_center.id,
     bills |-> cost_center_bills,
     total_amount |-> SumValue(cost_center_bills),
     bill_count |-> Len(cost_center_bills),
     date_range |->
        [earliest |-> cost_center_bills[1].bill_date,
         latest |-> cost_center_bills[Len(cost_center_bills)].bill_date],
     cost_center_calculation |-> cost_center_calculation]

\* the body of the loop over the groups: the distribution is asked for the
\* period of the account period, without the bills
SummaryOf(rs, account_period, cost_center) ==
    CostCenterSummary(cost_center,
        CostCenterBills(account_period, cost_center),
        TryCalculation(
            CalculateTotalConsumption(rs, cost_center,
                account_period.start_date, account_period.end_date, <<>>)))

RECURSIVE SummariesLoop(_, _, _)
SummariesLoop(rs, account_period, groups) ==
    IF groups = <<>> THEN <<>>
    ELSE <<SummaryOf(rs, account_period, Head(groups))>>
            \o SummariesLoop(rs, account_period, Tail(groups))

RECURSIVE SumBillCount(_)
SumBillCount(cost_center_summaries) ==
    IF cost_center_summaries = <<>> THEN 0
    ELSE Head(cost_center_summaries).bill_count
            + SumBillCount(Tail(cost_center_summaries))

RECURSIVE SortSummaries(_)
\* cost_center_summaries.sort by the text of the cost center, stable
SortSummaries(cost_center_summaries) ==
    IF cost_center_summaries = <<>> THEN <<>>
    ELSE LET n == Len(cost_center_summaries)
             text(k) == CostCenterById(cost_center_summaries[k].cost_center).text
             first == CHOOSE k \in 1..n : \A j \in 1..n :
                         text(k) < text(j) \/ (text(k) = text(j) /\ k <= j)
         IN  <<cost_center_summaries[first]>>
                \o SortSummaries([j \in 1..(n - 1) |->
                       IF j < first THEN cost_center_summaries[j]
                       ELSE cost_center_summaries[j + 1]])

AccountPeriodCalculation(account_period, cost_center_summaries) ==
    [account_period |-> account_period.id,
     cost_center_summaries |-> cost_center_summaries,
     grand_total |-> SumOf(cost_center_summaries, "total_amount"),
     total_bill_count |-> SumBillCount(cost_center_summaries),
     cost_center_count |-> Len(cost_center_summaries)]

\* AccountPeriod.calculate_bills_by_cost_center with the Renter table rs
CalculateBillsByCostCenter(rs, account_period) ==
    IF BillsOf(account_period) = {}
    THEN AccountPeriodCalculation(account_period, <<>>)
    ELSE AccountPeriodCalculation(account_period,
             SortSummaries(SummariesLoop(rs, account_period,
                                         CostCenterGroups(account_period))))

\* ------------------------------------------- period aggregation: the view
\* round(x, 2) of a float, taken exactly: the nearest hundredth, a tie to the
\* even one
Round2(x) ==
    LET n == x[1] * 100
        q == n \div x[2]
        r == n - q * x[2]
        up == IF 2 * r > x[2] THEN 1 ELSE IF 2 * r < x[2] THEN 0 ELSE q % 2
    IN  Rat(q + up, 100)

RatAbs(x) == <<Abs(x[1]), x[2]>>

\* filtered_results: the results of the renter, or all of them
FilteredResults(contribution_results, renter_id) ==
    IF renter_id # None
    THEN SelectSeq(contribution_results, LAMBDA cr : cr.renter_id = renter_id)
    ELSE contribution_results

\* one entry of new_contribs: the result with its euro_anteil and, for
\* HEATING_MIXED, the amounts by area and by consumption
EuroContribution(cost_center, total_amount, contrib) ==
    LET heating == cost_center.distribution_type = "HEATING_MIXED"
        area_amount ==
            RatDiv(RatMul(total_amount, RatInt(cost_center.area_percentage)),
                   RatInt(100))
        consumption_amount ==
            RatDiv(RatMul(total_amount,
                          RatInt(cost_center.consumption_percentage)),
                   RatInt(100))
    IN  [contribution |-> contrib.contribution,
         renter_id |-> contrib.renter_id,
         percentage |-> contrib.percentage,
         euro_anteil |->
            RatMul(RatDiv(contrib.percentage, RatInt(100)), total_amount),
         area_euro |->
            IF heating
            THEN Some(RatDiv(RatMul(area_amount, contrib.area_percentage_value),
                             RatInt(100)))
            ELSE None,
         consumption_euro |->
            IF heating
            THEN Some(RatDiv(RatMul(consumption_amount,
                                    contrib.consumption_percentage_value),
                             RatInt(100)))
            ELSE None]

\* a variant that never reports a rounding difference
SummaryDictNoDiff(summary, new_contribs) ==
    [cost_center |-> summary.cost_center,
     total_amount |-> summary.total_amount,
     contribution_results |-> new_contribs,
     sum_euro_anteil |-> SumOf(new_contribs, "euro_anteil"),
     has_renter_contributions |-> Len(new_contribs) > 0,
     rounding_diff |-> None,
     calculated |-> TRUE]

\* summary_dict of a summary with a calculation, from its new_contribs
SummaryDict(summary, new_contribs) ==
    LET sum_euro_anteil == SumOf(new_contribs, "euro_anteil")
        rounding_diff == Round2(RatSub(summary.total_amount, sum_euro_anteil))
    IN  [cost_center |-> summary.cost_center,
         total_amount |-> summary.total_amount,
         contribution_results |-> new_contribs,
         sum_euro_anteil |-> sum_euro_anteil,
         has_renter_contributions |-> Len(new_contribs) > 0,
         rounding_diff |->
            IF RatLe(Rat(1, 100), RatAbs(rounding_diff))
            THEN Some(rounding_diff) ELSE None,
         calculated |-> TRUE]

\* the body of the loop over the summaries: a summary without calculation is
\* passed on as it is
ViewSummary(renter_id, summary) ==
    IF summary.cost_center_calculation = None
    THEN [cost_center |-> summary.cost_center,
          total_amount |-> summary.total_amount, calculated |-> FALSE]
    ELSE LET cost_center == CostCenterById(summary.cost_center)
             filtered_results ==
                FilteredResults(
                    Get(summary.cost_center_calculation).contribution_results,
                    renter_id)
         IN  SummaryDict(summary,
                 [k \in 1..Len(filtered_results) |->
                     EuroContribution(cost_center, summary.total_amount,
                                      filtered_results[k])])

\* cost_center_summaries of one account period: in the view of one renter a
\* calculated cost center without results of the renter is left out
ViewSummaries(renter_id, calculation) ==
    SelectSeq([k \in 1..Len(calculation.cost_center_summaries) |->
                  ViewSummary(renter_id, calculation.cost_center_summaries[k])],
              LAMBDA s : \/ ~s.calculated
                         \/ renter_id = None
                         \/ s.has_renter_contributions)

RECURSIVE PeriodsLoop(_, _, _)
\* the loop over the account periods: a period without cost centers to show
\* is left out
PeriodsLoop(rs, renter_id, ordered) ==
    IF ordered = <<>> THEN <<>>
    ELSE LET shown == ViewSummaries(renter_id,
                          CalculateBillsByCostCenter(rs, Head(ordered)))
         IN  (IF shown = <<>> THEN <<>>
              ELSE <<[account_period |-> Head(ordered).id,
                      cost_center_summaries |-> shown]>>)
                \o PeriodsLoop(rs, renter_id, Tail(ordered))

RECURSIVE OrderByStartDate(_)
OrderByStartDate(rows) ==
    IF rows = {} THEN <<>>
    ELSE LET first == CHOOSE a \in rows : \A b \in rows :
                         \/ a.start_date < b.start_date
                         \/ a.start_date = b.start_date /\ a.id <= b.id
         IN  <<first>> \o OrderByStartDate(rows \ {first})

\* yearly_calculation: all_period_calculations
YearlyCalculation(rs, renter_id) ==
    PeriodsLoop(rs, renter_id, OrderByStartDate(account_periods))

\* ------------------------------------------- period aggregation: the calls
AccountPeriodCall(account_period) ==
    /\ result = NoResult
    /\ result' = [op |-> "calculate_bills_by_cost_center",
                  account_period |-> account_period,
                  r |-> CalculateBillsByCostCenter(renters, account_period)]
    /\ UNCHANGED <<meters, readings, formulas, calc, apartments, renters,
                   cost_centers, contributions, bill_objects,
                   account_periods>>

YearlyCalculationCall(renter_id) ==
    /\ result = NoResult
    /\ result' = [op |-> "yearly_calculation", renter_id |-> renter_id,
                  r |-> YearlyCalculation(renters, renter_id)]
    /\ UNCHANGED <<meters, readings, formulas, calc, apartments, renters,
                   cost_centers, contributions, bill_objects,
                   account_periods>>

Euro(cents) == Rat(cents, 100)

\* the bills of account period 1: none; one cent for cost center 1 over all
\* days; a bill of cost center 1 from day 1 on and one of cost center 2; two
\* bills of cost center 1 that meet on day 1
BillTables ==
    {{}, {BillRow(1, 1, 1, 1, Euro(1), 0, MaxRentDay)},
     {BillRow(1, 1, 1, 1, Euro(100), 1, MaxRentDay),
      BillRow(2, 2, 1, 0, Euro(50), 0, 1)},
     {BillRow(1, 1, 1, 2, Euro(23), 1, MaxRentDay),
      BillRow(2, 1, 1, 1, Euro(10), 0, 1)}}

\* account period 1 over all days or from day 1 on, and an account period 2
\* without bills
AccountPeriodTables ==
    {{[id |-> 1, text |-> 1, start_date |-> start_date,
       end_date |-> MaxRentDay],
      [id |-> 2, text |-> 2, start_date |-> 0, end_date |-> 1]} :
        start_date \in 0..1}

InitPeriod ==
    /\ meters = CalcFleet
    /\ readings = CalcReadings
    /\ result = NoResult
    /\ calc = NoCalc
    /\ \E area \in Areas :
          apartments = {[id |-> 1, size_in_m2 |-> area],
                        [id |-> 2, size_in_m2 |-> 1]}
    /\ \E o \in Occupancies, other \in OtherOccupancies :
          renters = o \cup other
    /\ \E distribution_type \in DistributionTypes, w \in Weights,
          f \in CostFormulas :
          /\ distribution_type # "HEATING_MIXED" => w = <<30, 70>>
          /\ distribution_type \notin FormulaTypes =>
                f = ConsumptionCalcRow(1, " ", 0, None, <<ValueArg(2, "kWh")>>)
          /\ cost_centers = {[id |-> 1, text |-> 2,
                              distribution_type |-> distribution_type,
                              area_percentage |-> w[1],
                              consumption_percentage |-> w[2]],
                             [id |-> 2, text |-> 1,
                              distribution_type |-> "TIME",
                              area_percentage |-> 30,
                              consumption_percentage |-> 70]}
          /\ formulas = (1 :> f) @@ (2 :> OtherFormula)
    /\ contributions \in ContributionSets(TRUE) \ {{}}
    /\ bill_objects \in BillTables
    /\ account_periods \in AccountPeriodTables

NextPeriod ==
    \/ \E account_period \in account_periods :
          AccountPeriodCall(account_period)
    \/ \E renter_id \in {None} \cup {Some(r.id) : r \in renters} :
          YearlyCalculationCall(renter_id)

SpecPeriod == InitPeriod /\ [][NextPeriod]_vars

\* ------------------------------------------- cost distribution: claims
Distributed(distribution_type) ==
    /\ result.op = "calculate_total_consumption"
    /\ result.distribution_type = distribution_type

Returned(distribution_type) ==
    /\ Distributed(distribution_type)
    /\ result.r.kind = "ok"

RECURSIVE SumResultDays(_, _)
\* the day counts of the first n results, added up
SumResultDays(contribution_results, n) ==
    IF n = 0 THEN 0
    ELSE (contribution_results[n].period_end
            - contribution_results[n].period_start)
         + SumResultDays(contribution_results, n - 1)

\* the example of the TIME strategy: one apartment, the period of days 0 to
\* 30, empty for 10 days and then let to renter 1
C17_Example ==
    LET looped == TimeContribution({Tenant(1, 1, 10, None)},
                                   Contribution(1, Some(1), "", None), 0, 30)
        r == ShareResults(looped.temp_results)
    IN  /\ Len(r) = 2
        /\ r[1].renter_id = None
        /\ r[1].final_consumption = RatInt(10)
        /\ r[1].percentage = Rat(10 * 100, 30)
        /\ r[2].renter_id = Some(1)
        /\ r[2].final_consumption = RatInt(20)
        /\ r[2].percentage = Rat(20 * 100, 30)

\* C17: under the TIME strategy the value of every result is the day count of
\* its sub-interval and its percentage is that day count over the sum of the
\* day counts of all results, times 100; a 30-day period of one apartment
\* that is empty for 10 days and let for the other 20 gives exactly two
\* results, the vacancy with 10/30 and the renter with 20/30.
C17_TimeShares ==
    /\ C17_Example
    /\ Returned("TIME") =>
          LET r == result.r.contribution_results
          IN  \A k \in 1..Len(r) :
                 /\ r[k].final_consumption =
                       RatInt(r[k].period_end - r[k].period_start)
                 /\ RatMul(r[k].percentage, RatInt(SumResultDays(r, Len(r)))) =
                       RatInt((r[k].period_end - r[k].period_start) * 100)

\* a TIME call over days 0 to 3 for apartment 1 alone, empty on the first day:
\* a vacancy of one third and a renter of two thirds
C17_Witness ==
    /\ Returned("TIME")
    /\ result.start_date = 0
    /\ result.end_date = MaxRentDay
    /\ LET r == result.r.contribution_results
       IN  /\ Len(r) = 2
           /\ r[1].renter_id = None
           /\ r[2].renter_id # None
           /\ r[1].period_end = 1
           /\ r[1].percentage = Rat(100, MaxRentDay)
           /\ r[2].percentage = Rat((MaxRentDay - 1) * 100, MaxRentDay)

\* the contributions of the cost center of the call, when it got past the
\* check of the period and found any
Contributing ==
    IF result.start_date < result.end_date
    THEN ContributionsOf(result.cost_center)
    ELSE {}

\* the area of the apartment of a contribution result
AreaOf(contribution_result) ==
    LET c == CHOOSE c \in contributions :
                c.id = contribution_result.contribution
    IN  ApartmentById(Get(c.apartment)).size_in_m2

\* C18: under the AREA strategy a contribution without apartment, or with an
\* apartment without area, makes calculate_total_consumption fail for the
\* missing area; otherwise the value of every result is the area of the
\* apartment times the day count of the sub-interval.
C18_AreaRequired ==
    Distributed("AREA") /\ Contributing # {} =>
       IF \E c \in Contributing :
             IF c.apartment = None THEN TRUE
             ELSE ApartmentById(Get(c.apartment)).size_in_m2 = 0
       THEN /\ result.r.kind = "ValueError"
            /\ result.r.strategy = "AREA"
       ELSE /\ result.r.kind = "ok"
            /\ \A k \in 1..Len(result.r.contribution_results) :
                  LET r == result.r.contribution_results[k]
                  IN  r.final_consumption =
                         RatInt(AreaOf(r) * (r.period_end - r.period_start))

\* the windows a DIRECT call validates: the bills, or the period without
DirectWindows ==
    IF Len(result.bills) > 0
    THEN {<<result.bills[k].from_date, result.bills[k].to_date>> :
             k \in 1..Len(result.bills)}
    ELSE {<<result.start_date, result.end_date>>}

\* the renters of an apartment whose contract covers day d to d + 1
TenantsOn(apartment, d) ==
    {r.id : r \in {r \in renters :
                     /\ r.apartment = apartment
                     /\ RenterPeriodStart(r, TRUE) <= d
                     /\ IF RenterPeriodEnd(r, TRUE) = None THEN TRUE
                        ELSE d + 1 <= Get(RenterPeriodEnd(r, TRUE))}}

TenantsIn(apartment, w) ==
    UNION {TenantsOn(apartment, d) : d \in w[1]..(w[2] - 1)}

\* a vacancy or more than one tenant in a window, or different tenants in two
\* windows
Ambiguous(apartment) ==
    \/ \E w \in DirectWindows :
          \/ \E d \in w[1]..(w[2] - 1) : TenantsOn(apartment, d) = {}
          \/ Cardinality(TenantsIn(apartment, w)) > 1
    \/ \E w1, w2 \in DirectWindows :
          TenantsIn(apartment, w1) # TenantsIn(apartment, w2)

AmbiguousOccupancy ==
    {"vacancy", "no renter", "renter change", "different renters"}

\* C19: under the DIRECT strategy, if in a bill window (or in the period when
\* no bills are given) an apartment of the cost center is empty for a time or
\* has more than one tenant by contract dates, or has another tenant than in
\* another bill window, the call fails, returns no shares, and the error for
\* an ambiguous occupancy names the apartment and the tenants or vacancy
\* windows found; a call that returns has one result of value 1 per
\* apartment, for one tenant, never two results for one apartment.
C19_DirectNeverSplits ==
    Distributed("DIRECT") /\ Contributing # {} =>
       /\ (\E c \in Contributing :
              IF c.apartment = None THEN FALSE
              ELSE Ambiguous(Get(c.apartment)))
             => result.r.kind = "ValueError"
       /\ result.r.kind = "ValueError"
             /\ result.r.reason \in AmbiguousOccupancy =>
                /\ result.r.apartment # None
                /\ \E c \in Contributing : c.apartment = result.r.apartment
                /\ result.r.found # {}
       /\ result.r.kind = "ok" =>
             LET r == result.r.contribution_results
             IN  /\ Len(r) = Cardinality(Contributing)
                 /\ \A j, k \in 1..Len(r) :
                       r[j].contribution = r[k].contribution => j = k
                 /\ \A k \in 1..Len(r) :
                       /\ r[k].final_consumption = RatInt(1)
                       /\ r[k].renter_id # None
                       /\ r[k].percentage = Rat(100, Len(r))

\* a bill over days 0 to 3 for an apartment that changes hands on day 1: the
\* call fails naming apartment 1 and renters 1 and 2
C19_Witness ==
    /\ Distributed("DIRECT")
    /\ Len(result.bills) = 1
    /\ result.r.kind = "ValueError"
    /\ result.r.reason = "renter change"
    /\ result.r.apartment = Some(1)
    /\ result.r.found = {1, 2}
    /\ TenantsOn(1, 0) = {1}
    /\ TenantsOn(1, 1) = {2}

\* area times days of a contribution result
AreaDaysOf(contribution_result) ==
    RatInt(AreaOf(contribution_result)
           * (contribution_result.period_end
                - contribution_result.period_start))

RECURSIVE SumAreaDays(_, _)
SumAreaDays(contribution_results, n) ==
    IF n = 0 THEN RatInt(0)
    ELSE RatAdd(AreaDaysOf(contribution_results[n]),
                SumAreaDays(contribution_results, n - 1))

RECURSIVE SumFinalConsumption(_, _)
SumFinalConsumption(contribution_results, n) ==
    IF n = 0 THEN RatInt(0)
    ELSE RatAdd(contribution_results[n].final_consumption,
                SumFinalConsumption(contribution_results, n - 1))

CalledCostCenter ==
    CHOOSE cost_center \in cost_centers : cost_center.id = result.cost_center

\* part / total * 100 * weight / 100
WeightedShare(part, total, weight) ==
    RatMul(RatMul(RatDiv(part, total), RatInt(100)), Rat(weight, 100))

\* the example of the HEATING_MIXED strategy: weights 30 and 70, two
\* apartments of equal area, each with one result over the whole period, the
\* first with twice the consumption of the second
HeatingExample ==
    /\ Returned("HEATING_MIXED")
    /\ CalledCostCenter.area_percentage = 30
    /\ CalledCostCenter.consumption_percentage = 70
    /\ LET r == result.r.contribution_results
       IN  /\ Len(r) = 2
           /\ r[1].contribution # r[2].contribution
           /\ AreaOf(r[1]) = AreaOf(r[2])
           /\ AreaOf(r[1]) > 0
           /\ \A k \in 1..2 : /\ r[k].period_start = result.start_date
                              /\ r[k].period_end = result.end_date
           /\ r[2].final_consumption[1] > 0
           /\ r[1].final_consumption =
                 RatMul(RatInt(2), r[2].final_consumption)

C21_TotalIsSum ==
    result.op = "calculate_total_consumption" /\ result.r.kind = "ok" =>
       SumFinalConsumption(result.r.contribution_results,
                           Len(result.r.contribution_results))
          = result.r.total_consumption

\* a HEATING_MIXED call that returns two results with a total that is not 0
\* and differs from each of them
C21_Witness ==
    /\ Returned("HEATING_MIXED")
    /\ Len(result.r.contribution_results) = 2
    /\ ~RatIsZero(result.r.total_consumption)
    /\ \A k \in 1..2 :
          /\ ~RatIsZero(result.r.contribution_results[k].final_consumption)
          /\ AreaOf(result.r.contribution_results[k]) > 0

\* the outcome of the strategy of the call for one contribution alone
Alone(c) ==
    StrategyContribution(result.distribution_type, renters, c,
                         result.start_date, result.end_date, result.bills)

\* the contributions of the call whose evaluation fails
Failing == {c \in Contributing : Alone(c).kind # "ok"}

\* the first of them in the order of the loop
Offending == CHOOSE c \in Failing : \A d \in Failing : c.id <= d.id

\* C22: calculate_total_consumption is fail-fast: if the evaluation of any
\* contribution fails, under any strategy, the call raises an error that
\* names the offending contribution or its apartment, and its formula where
\* the strategy evaluates one, and returns no CostCenterCalculation, so no
\* result computed for an earlier contribution is returned.
C22_FailFast ==
    result.op = "calculate_total_consumption" /\ Failing # {} =>
       /\ result.r.kind = "ValueError"
       /\ "contribution_results" \notin DOMAIN result.r
       /\ "total_consumption" \notin DOMAIN result.r
       /\ \/ result.r.contribution = Some(Offending.id)
          \/ /\ result.r.apartment # None
             /\ result.r.apartment = Offending.apartment
       /\ result.distribution_type \in FormulaTypes
             /\ Offending.consumption_calc # None =>
                result.r.consumption_calc = Offending.consumption_calc

\* the second of two contributions fails after the first gave results: the
\* error names the second and its formula
C22_Witness ==
    /\ result.op = "calculate_total_consumption"
    /\ Cardinality(Failing) = 1
    /\ Cardinality(Contributing) = 2
    /\ Offending.id = 2
    /\ \E c \in Contributing : /\ c.id = 1
                               /\ Len(Alone(c).temp_results) > 0
    /\ result.r.kind = "ValueError"
    /\ result.r.contribution = Some(2)
    /\ result.r.consumption_calc = Some(2)

\* the formula of a contribution of the call
FormulaOf(c) == formulas[Get(c.consumption_calc)]

\* the sub-intervals the consumption strategy gets for a contribution
SubIntervals(c) ==
    IF c.apartment # None
    THEN GetRentersForPeriod(renters, Get(c.apartment), result.start_date,
                             result.end_date, FALSE)
    ELSE WholePeriod(result.start_date, result.end_date)

\* a sub-interval and the validity window of the formula have days in common
Overlaps(c, q) ==
    /\ q.end_date > FormulaOf(c).start_date
    /\ FormulaOf(c).end_date # None => q.start_date < Get(FormulaOf(c).end_date)
    /\ q.start_date < q.end_date

ResultsOf(c) ==
    SelectSeq(result.r.contribution_results, LAMBDA cr : cr.contribution = c.id)

\* C27: under CONSUMPTION every formula is evaluated over a window clipped to
\* its validity: each result has a window with start before end, not before
\* the start_date of the formula and not after its end_date when set; the
\* results of a contribution are those of its sub-intervals that overlap the
\* validity of the formula, so a sub-interval without overlap gives none; and
\* the call never fails because the own formula of a contribution rejected
\* its window.
C27_ClippedWindows ==
    Distributed("CONSUMPTION") =>
       /\ result.r.kind = "ok" =>
             \A c \in Contributing :
                /\ Len(ResultsOf(c))
                      = Len(SelectSeq(SubIntervals(c),
                                      LAMBDA q : Overlaps(c, q)))
                /\ \A k \in 1..Len(ResultsOf(c)) :
                      /\ ResultsOf(c)[k].period_start < ResultsOf(c)[k].period_end
                      /\ ResultsOf(c)[k].period_start >= FormulaOf(c).start_date
                      /\ FormulaOf(c).end_date # None =>
                            ResultsOf(c)[k].period_end
                               <= Get(FormulaOf(c).end_date)
       /\ result.r.kind # "ok" /\ result.r.cause # None =>
             ~ /\ Get(result.r.cause).reason \in RangeReasons
               /\ Some(Get(result.r.cause).raised_by) = result.r.consumption_calc

\* a change of tenant on day 1 and a formula valid from day 1 to the last
\* day but one: the first sub-interval gives no result, the second one a
\* result that ends with the validity of the formula
C27_Witness ==
    /\ Returned("CONSUMPTION")
    /\ \E c \in Contributing :
          /\ c.id = 1
          /\ FormulaOf(c).start_date = 1
          /\ FormulaOf(c).end_date # None
          /\ Len(SubIntervals(c)) = 2
          /\ ~Overlaps(c, SubIntervals(c)[1])
          /\ Len(ResultsOf(c)) = 1
          /\ ResultsOf(c)[1].period_end < SubIntervals(c)[2].end_date
          /\ ResultsOf(c)[1].period_end = Get(FormulaOf(c).end_date)

\* ------------------------------------------- period aggregation: claims
Aggregated == result.op = "calculate_bills_by_cost_center"

\* C23: if the distribution of a cost center of the account period fails,
\* calculate_bills_by_cost_center fails as a whole: it never returns a period
\* result with a summary that lists the bills and the total of a cost center
\* without a computed distribution.
C23_NoDegradedResult ==
    Aggregated =>
       \A k \in 1..Len(result.r.cost_center_summaries) :
          result.r.cost_center_summaries[k].cost_center_calculation # None

\* C24: for a cost center with the DIRECT strategy, the distribution in the
\* summary of calculate_bills_by_cost_center is the one computed with the
\* bills of the cost center, so that occupancy is validated against the
\* window of each bill.
C24_DirectGetsBills ==
    Aggregated =>
       \A k \in 1..Len(result.r.cost_center_summaries) :
          LET summary == result.r.cost_center_summaries[k]
              cost_center == CostCenterById(summary.cost_center)
          IN  cost_center.distribution_type = "DIRECT" =>
                 summary.cost_center_calculation
                    = TryCalculation(
                          CalculateTotalConsumption(renters, cost_center,
                              result.account_period.start_date,
                              result.account_period.end_date, summary.bills))

Viewed == result.op = "yearly_calculation"

\* the summaries with a distribution that the view shows, as pairs of the
\* place of the period and the place of the summary
ShownCalculated ==
    {pk \in {<<p, k>> : p \in 1..2, k \in 1..2} :
        /\ pk[1] <= Len(result.r)
        /\ pk[2] <= Len(result.r[pk[1]].cost_center_summaries)
        /\ result.r[pk[1]].cost_center_summaries[pk[2]].calculated}

ShownSummary(pk) == result.r[pk[1]].cost_center_summaries[pk[2]]

Reported(rounding_diff) ==
    IF rounding_diff = None THEN RatInt(0) ELSE Get(rounding_diff)

AggregatedSummary(pk) ==
    LET account_period ==
            CHOOSE a \in account_periods : a.id = result.r[pk[1]].account_period
        summaries ==
            CalculateBillsByCostCenter(renters, account_period).cost_center_summaries
    IN  summaries[CHOOSE k \in 1..Len(summaries) :
                     summaries[k].cost_center = ShownSummary(pk).cost_center]

RECURSIVE SumShares(_, _, _)
\* percentage / 100 * total_amount, added up over the first n results
SumShares(contribution_results, total_amount, n) ==
    IF n = 0 THEN RatInt(0)
    ELSE RatAdd(SumShares(contribution_results, total_amount, n - 1),
                RatMul(RatDiv(contribution_results[n].percentage, RatInt(100)),
                       total_amount))

\* summed bill amount minus the monetary shares of all results of the cost
\* center
Residue(pk) ==
    LET contribution_results ==
            Get(AggregatedSummary(pk).cost_center_calculation).contribution_results
    IN  RatSub(ShownSummary(pk).total_amount,
               SumShares(contribution_results, ShownSummary(pk).total_amount,
                         Len(contribution_results)))

\* C26: in the view of the landlord and in the view of one renter, the
\* rounding residue reported for a cost center is its summed bill amount
\* minus the monetary shares of all its distribution results, and it is
\* reported exactly when its absolute value is at least 0.01.
C26_ResidueReported ==
    Viewed =>
       \A pk \in ShownCalculated :
          ShownSummary(pk).rounding_diff
             = IF RatLe(Rat(1, 100), RatAbs(Residue(pk)))
               THEN Some(Residue(pk)) ELSE None

\* ------------------------------------------- nested formulas: claims
RECURSIVE ReachesCycle(_, _, _, _, _)
\* the arguments of formula id from position k on, read in order over the
\* period, come to a reference to a formula of path, the formulas being
\* evaluated, before any of them fails
ReachesCycle(id, start_date, end_date, path, k) ==
    IF k > Len(Arguments(id)) THEN FALSE
    ELSE LET arg == Arguments(id)[k]
         IN  IF arg.nested_calc # None
             THEN IF Get(arg.nested_calc) \in path THEN TRUE
                  ELSE IF \/ InvalidRange(formulas[Get(arg.nested_calc)],
                                          start_date, end_date)
                          \/ Len(Arguments(Get(arg.nested_calc))) = 0
                  THEN FALSE
                  ELSE IF ReachesCycle(Get(arg.nested_calc), start_date,
                                       end_date,
                                       path \cup {Get(arg.nested_calc)}, 1)
                  THEN TRUE
                  ELSE /\ Calculate(Get(arg.nested_calc), start_date, end_date,
                                    MaxDepth).kind = "ok"
                       /\ ReachesCycle(id, start_date, end_date, path, k + 1)
             ELSE IF arg.meter_place # None
             THEN /\ CalculateBilling(meters, readings, Get(arg.meter_place),
                                      start_date, end_date).kind = "ok"
                  /\ ReachesCycle(id, start_date, end_date, path, k + 1)
             ELSE /\ arg.value # None
                  /\ ReachesCycle(id, start_date, end_date, path, k + 1)

\* the call is for a formula on a cycle of nested references, over a period
\* valid for it, and everything before the cyclic reference succeeds
CyclicCall ==
    /\ calc.status # "idle"
    /\ ~InvalidRange(CalledFormula, calc.call.start_date, calc.call.end_date)
    /\ ReachesCycle(calc.call.id, calc.call.start_date, calc.call.end_date,
                    {calc.call.id}, 1)

\* C28: calculate has no cycle guard. A call that comes to a cyclic nested
\* reference, over a period valid for the formulas on the cycle and with all
\* arguments before the reference evaluated successfully, never reaches a
\* result or an error of the evaluation, it only runs until the stack is
\* used up; every other call, with acyclic nested references in particular,
\* comes to its end.
C28_NoCycleGuard ==
    /\ [](CyclicCall => calc.status = "running")
    /\ (calc.status = "running" /\ ~CyclicCall)
          ~> (calc.status \in {"done", "error"})

\* formula 1 references formula 2 and formula 2 references formula 1: the
\* stack is used up with formula 1 on it twice
C28_Witness ==
    /\ CyclicCall
    /\ Len(calc.stack) = MaxDepth
    /\ calc.stack[1].id = 1
    /\ calc.stack[2].id = 2
    /\ calc.stack[3].id = 1
    /\ Top.pc = "arguments"

\* ------------------------------------------- tenancy splitting: more claims
\* every tenancy of the table lasts at least a day
ProperTenancies ==
    \A r \in renters :
       r.move_out_date # None => r.move_in_date < Get(r.move_out_date)

\* C29: every sub-interval that get_renters_for_period returns for a period
\* with start before end has positive length, for tenants and vacancies
\* alike, also when a tenancy ends on the start or begins on the end of the
\* period.
C29_PositiveLength ==
    Split /\ ProperTenancies =>
       \A k \in 1..Len(result.r) : result.r[k].start_date < result.r[k].end_date

\* ------------------------------------------- cost distribution: more claims
\* the percentages of the results of the call, added up
SumPercentage == SumOf(result.r.contribution_results, "percentage")

\* the total the percentages are normalised by is not zero; for HEATING_MIXED
\* the area * days total is positive and the two weights add up to 100
NormalisationTotal ==
    IF result.distribution_type = "HEATING_MIXED"
    THEN /\ SumAreaDays(result.r.contribution_results,
                        Len(result.r.contribution_results))[1] > 0
         /\ CalledCostCenter.area_percentage
               + CalledCostCenter.consumption_percentage = 100
    ELSE ~RatIsZero(result.r.total_consumption)

\* C30: under every strategy, whenever a distribution returns at least one
\* result and its normalisation total is not zero, the percentages of all
\* its results add up to 100.
C30_PercentagesSumTo100 ==
    /\ result.op = "calculate_total_consumption"
    /\ result.r.kind = "ok"
    /\ Len(result.r.contribution_results) >= 1
    /\ NormalisationTotal
    => SumPercentage = RatInt(100)

=============================================================================
